---- MODULE Spec2Model ----
(***************************************************************************)
(* Verification model of the Resilient External Acquisition Layer of       *)
(* Price-Compare (backend/app): the eBay token manager, the sliding-window *)
(* rate limiter, the proxy manager, the Playwright scraping engine, the    *)
(* cookie stores, the session manager and the CAPTCHA handler.  Each       *)
(* component has its own specification (SpecToken, SpecRate, SpecRateBlock *)
(* and SpecKeys, SpecProxy and SpecHealth, SpecScrape, SpecScrapeShared    *)
(* and SpecSticky, SpecAttempt, SpecBackoff, SpecQuota, SpecBrowser,       *)
(* SpecCookie, SpecPlaywright and SpecCookieRace, SpecSession,             *)
(* SpecCaptcha)                                                            *)
(* over the shared state; a component's actions leave the other            *)
(* components' variables unchanged.                                        *)
(***************************************************************************)
EXTENDS Integers, Sequences, FiniteSets, TLC

\* ------------------------------------------------------------------------
\* Bounds of the exploration (not program constants)
\* ------------------------------------------------------------------------
MaxCalls == 3
MaxTicks == 1
MaxStoreFails == 1
MaxIrregular == 1
MaxFailures == 4
MaxRetries == 3
MaxScrapes == 1
MaxCaptchaCalls == 2
MaxBrowserRetries == 2
MaxBackoffRetries == 4
MaxQuotaCalls == 3
MaxOtherReports == 3
MaxSessionTicks == 3
MaxKeyCalls == 3

\* ------------------------------------------------------------------------
\* Program constants
\* ------------------------------------------------------------------------
LockTTL == 60
ExpiryBuffer == 60
StoreBuffer == 300
DefaultExpiresIn == 7200
MintWindow == 86400
MaxMintsPerDay == 900
Period == 60
PublicLimit == 60
AuthenticatedLimit == 300
EbayApiLimit == 100

NoVal == -1

VARIABLES
    \* ---- token manager: the clock and the coordination store (Redis)
    now,          \* time.time(), in seconds
    ticks,        \* number of clock advances taken (bounded)
    fails,        \* number of store operations that raised (bounded)
    lock_until,   \* instant at which key "ebay_token_lock" expires, NoVal if absent
    lock_owner,   \* process whose SET NX created the present lock key (0 if none)
    r_token,      \* value of ebay:access_token, NoVal if absent
    r_expiry,     \* value of ebay:token_expiry, NoVal if absent
    r_ttl,        \* instant at which the token keys expire, NoVal if absent
    mint_count,   \* value of ebay:token_mint_count, NoVal if absent
    mint_reset,   \* value of ebay:token_mint_reset, NoVal if absent
    \* ---- token manager: one EBayTokenManager per process
    pc,           \* position of the process's get_access_token call
    avail,        \* self.redis_available
    held,         \* self._lock_acquired
    loc,          \* locals of the running call: token (cache read), current_time,
                  \* access_token, expiry_time, exc (pending in the finally clause)
    out,          \* outcome of the last call: res ("none", "token", "http503"),
                  \* detail (the error before get_access_token wraps it), token
    \* ---- token manager: history variables
    hist,         \* per process: quotaSeen (_check_mint_limit returned True),
                  \* cs (between a successful _acquire_lock and the release),
                  \* tookLock (the call set the lock key), keyLeft (that key was
                  \* still present when the call returned), expAtRead (the
                  \* expiry the store held when line 71 read the token)
    calls,        \* number of get_access_token calls started
    posts,        \* number of token-endpoint requests sent
    batchPosts,   \* requests sent since the system was last quiescent
    resets,       \* number of times the mint counter was reset
    minted,       \* tokens the endpoint issued since the present mint
                  \* window was started
    \* ---- rate limiter (core/rate_limiter.py); instants are kept as ages,
    \* in whole seconds before the present reading of int(time.time())
    rl_avail,     \* self.redis_available
    rl_class,     \* the limit_type the callers of each key pass
    rl_zset,      \* per key: the members of the sorted set (one per second)
    rl_ttl,       \* per key: seconds until the key expires, NoVal if absent
    rl_sleep,     \* the caller blocked in asyncio.sleep: its key and time left
    rl_out,       \* outcome of the last limit call
    \* ---- rate limiter: history variables
    rl_n0,        \* per key: limit calls made in the present second
    rl_ok1,       \* per key: ages of seconds with a call that returned normally
    rl_ok2,       \* per key: ages of seconds with two such calls
    rl_irr,       \* ages of the irregular seconds (see Irregular below)
    rl_thr,       \* the keys a call of which found request_count > limit
    rl_last,      \* per key: age of its latest limit call (at most Period,
                  \* which stands for a period or longer), NoVal if none
    rl_gap,       \* the time the key of the last call had been without calls
    rl_blocked,   \* seconds the latest blocking call has spent asleep so far
                  \* (at most BlockedCap, which stands for that or longer)
    \* ---- proxy manager (proxy_manager.py)
    PROXY_ENABLED,         \* settings.PROXY_ENABLED
    PROXY_CREDS,           \* settings.PROXY_USER and settings.PROXY_PASSWORD are set
    proxies,               \* self.proxies: the ProxyInfo records, in pool order
    current_proxy_index,   \* self._current_proxy_index
    \* ---- proxy manager: history variables
    px_ret,       \* the last get_proxy result, and whether its record was enabled
    last_health_check, \* seconds since self._last_health_check (at most
                  \* HealthCheckInterval, which stands for that or longer)
    px_pending,   \* the records whose probe of line 164 awaits its response
    px_sent,      \* history: the probes sent by the health_check that just
                  \* ran, each with the state of its record at that moment
    px_resp,      \* history: the probe response just handled and what it left
    px_own,       \* per record: failures reported for it since its last
                  \* reported success
    \* ---- scraping engine (scraper_engine.py)
    scrape,           \* the scrape_page call: pc, site_url, max_retries, attempt
    sticky_sessions,  \* _sticky_sessions
    sc_out,           \* what the last scrape_page call returned or raised
    \* ---- scraping engine: history variables
    sc_hist,      \* of the present call: the pauses slept, the page and the
                  \* exception of the last attempt, the passes of the loop,
                  \* the terminal errors raised, the proxy of the last
                  \* attempt
    sc_calls,     \* number of scrape_page calls started
    \* ---- cookie stores
    cookie_files, \* the engine's cookies_*.txt files, by path
    cm_file,      \* the CookieManager's cookies.json
    \* ---- cookie stores: history variables
    ck_saved,     \* per target: the set last persisted by the engine
    cm_saved,     \* per domain: the set last persisted by the CookieManager
    ck_loaded,    \* the result of the last load
    \* ---- browsers of concurrent scrapes (scraper_engine.py, lines 195-246)
    br_task,      \* per scrape_page coroutine: its position, its loop counter
                  \* and its local variables browser and context
    br_open,      \* the browsers and contexts that are open
    \* ---- browsers: history variables
    br_uses,      \* which attempt operated on which context
    br_closed,    \* the browsers and contexts closed, and by what
    \* ---- CAPTCHA handler (utils/captcha_handler.py)
    cap_out,      \* outcome of the last handle_captcha call
    \* ---- CAPTCHA handler: history variables
    cap_log,      \* the outcomes of the calls so far, oldest first
    \* ---- retry loops and their backoff (scraper_engine.py, base_scraper.py)
    bk_loop,      \* the loop that runs: whose it is, its retry setting and
                  \* its attempt counter
    \* ---- retry loops: history variable
    bk_slept,     \* the backoff sleeps of the loop so far, each with the
                  \* attempt counter it was computed from
    \* ---- daily-quota limiter of the eBay service (services/ebay_service.py)
    q_now,        \* time.time(), in seconds
    q_cfg,        \* the limiter as built: redis_available and max_calls
    q_store,      \* the store: usage and reset_time keys with their expiry
                  \* instants, and the last request time (NoVal: absent)
    q_local,      \* _local_usage and _local_reset
    q_call,       \* per coroutine: where its wait_if_needed call stands, the
                  \* instant its sleep ends and its local variable now
    \* ---- daily-quota limiter: history variable
    q_hist,       \* calls started, idle periods taken, and the last
                  \* admission: who, whether it had slept until the reset,
                  \* and the usage it observed after that sleep
    \* ---- the steps of a scrape attempt (scraper_engine.py, lines 189-246)
    at_run,       \* the scrape_page call: its position, attempt, max_retries
    \* ---- the steps of a scrape attempt: history variable
    at_steps,     \* the steps the present attempt has taken, in order, each
                  \* with its outcome
    \* ---- SessionManager (session_manager.py)
    ss_now,       \* datetime.utcnow() / time.time(), in seconds
    ss_files,     \* the session files: per session id the 'expires' instant
                  \* of the session written there (NoVal: no file)
    ss_sessions,  \* self.sessions, the in-memory cache (NoVal: not cached)
    ss_last_cleanup, \* self._last_cleanup
    \* ---- SessionManager: history variable
    ss_ret,       \* the last load_session call: its id, instant, what it
                  \* returned and whether it left an expired session behind
    \* ---- PlaywrightScraper and the CookieManager file it writes
    pw_file,      \* data/cookies/cookies.json
    pw_scraper,   \* one PlaywrightScraper: page, domain, use_cookies and the
                  \* cookies its browser context holds
    pw_save,      \* per coroutine: where its CookieManager.save_cookies call
                  \* stands, with its arguments and its local all_cookies
    \* ---- PlaywrightScraper and CookieManager: history variables
    pw_hist,      \* the last get_page_content call: its domain, whether it
                  \* succeeded, the stored entry before it, and whether close
                  \* has run since
    pw_done,      \* per domain: the cookies of the last save_cookies call
                  \* that completed
    \* ---- RateLimiter keys (core/rate_limiter.py, lines 24-38 and 92-93)
    ky_store,     \* the store: per key the number of entries of its window
    ky_calls,     \* number of limit() calls made (bounded)
    \* ---- RateLimiter keys: history variables
    ky_own,       \* per resource and identity: the calls made by that
                  \* identity on that resource
    ky_last       \* the last call: its resource, its identity, its key and
                  \* the remaining count returned

tokVars == <<now, ticks, fails, lock_until, lock_owner, r_token, r_expiry, r_ttl,
             mint_count, mint_reset, pc, avail, held, loc, out, hist, calls,
             posts, batchPosts, resets, minted>>

rlVars == <<rl_avail, rl_class, rl_zset, rl_ttl, rl_sleep, rl_out,
            rl_n0, rl_ok1, rl_ok2, rl_irr, rl_thr, rl_last, rl_gap,
            rl_blocked>>

hcVars == <<last_health_check, px_pending, px_sent, px_resp>>

pxVars == <<PROXY_ENABLED, PROXY_CREDS, proxies, current_proxy_index, px_ret, px_own,
            hcVars>>

scVars == <<scrape, sticky_sessions, sc_out, sc_hist, sc_calls>>

ckVars == <<cookie_files, cm_file, ck_saved, cm_saved, ck_loaded>>

capVars == <<cap_out, cap_log>>

brVars == <<br_task, br_open, br_uses, br_closed>>

bkVars == <<bk_loop, bk_slept>>

qVars == <<q_now, q_cfg, q_store, q_local, q_call, q_hist>>

atVars == <<at_run, at_steps>>

ssVars == <<ss_now, ss_files, ss_sessions, ss_last_cleanup, ss_ret>>

pwVars == <<pw_file, pw_scraper, pw_save, pw_hist, pw_done>>

kyVars == <<ky_store, ky_calls, ky_own, ky_last>>

vars == <<tokVars, rlVars, pxVars, scVars, ckVars, capVars, brVars, bkVars, qVars, atVars, ssVars, pwVars, kyVars>>

\* What the actions of one component leave alone.
notTok == <<rlVars, pxVars, scVars, ckVars, capVars, brVars, bkVars, qVars, atVars, ssVars, pwVars, kyVars>>
notRl == <<tokVars, pxVars, scVars, ckVars, capVars, brVars, bkVars, qVars, atVars, ssVars, pwVars, kyVars>>
notPx == <<tokVars, rlVars, scVars, ckVars, capVars, brVars, bkVars, qVars, atVars, ssVars, pwVars, kyVars>>
notScrape == <<tokVars, rlVars, cm_file, cm_saved, ck_loaded, capVars, brVars, bkVars, qVars, atVars, ssVars, pwVars, kyVars>>
notCk == <<tokVars, rlVars, pxVars, scVars, capVars, brVars, bkVars, qVars, atVars, ssVars, pwVars, kyVars>>
notCap == <<tokVars, rlVars, pxVars, scVars, ckVars, brVars, bkVars, qVars, atVars, ssVars, pwVars, kyVars>>
notBr == <<tokVars, rlVars, pxVars, scVars, ckVars, capVars, bkVars, qVars, atVars, ssVars, pwVars, kyVars>>
notBk == <<tokVars, rlVars, pxVars, scVars, ckVars, capVars, brVars, qVars, atVars, ssVars, pwVars, kyVars>>
notQ == <<tokVars, rlVars, pxVars, scVars, ckVars, capVars, brVars, bkVars, atVars, ssVars, pwVars, kyVars>>
notAt == <<tokVars, rlVars, pxVars, scVars, ckVars, capVars, brVars, bkVars, qVars, ssVars, pwVars, kyVars>>
notSs == <<tokVars, rlVars, pxVars, scVars, ckVars, capVars, brVars, bkVars, qVars, atVars, pwVars, kyVars>>
notPw == <<tokVars, rlVars, pxVars, scVars, ckVars, capVars, brVars, bkVars, qVars, atVars, ssVars, kyVars>>
notKy == <<tokVars, rlVars, pxVars, scVars, ckVars, capVars, brVars, bkVars, qVars, atVars, ssVars, pwVars>>

\* The processes (workers) that share the coordination store.
Procs == {1, 2}

\* ========================================================================
\* EBayTokenManager (core/ebay_token.py)
\* ========================================================================

\* Initial contents of the mint counter: a fresh store, or a store late in a
\* busy window (the counter one below the cap, the reset instant ahead).
InitMintCounts == {NoVal, MaxMintsPerDay - 1}

NoLocals == [token |-> NoVal, current_time |-> NoVal, access_token |-> NoVal,
             expiry_time |-> NoVal, exc |-> "none"]
NoOutcome == [res |-> "none", detail |-> "none", token |-> NoVal]
NoHist == [quotaSeen |-> FALSE, cs |-> FALSE, tookLock |-> FALSE, keyLeft |-> FALSE,
           expAtRead |-> NoVal]

\* A Redis key with a TTL is present until its expiry instant.
KeyPresent(until, t) == until # NoVal /\ t < until
LockPresent == KeyPresent(lock_until, now)
CachedToken == IF KeyPresent(r_ttl, now) THEN r_token ELSE NoVal
CachedExpiry == IF KeyPresent(r_ttl, now) THEN r_expiry ELSE NoVal

\* get_access_token line 75: the cached token is served while its stored
\* expiry is more than the buffer ahead.
TokenValid(tok, exp, t) == tok # NoVal /\ exp # NoVal /\ exp > t + ExpiryBuffer

\* _check_mint_limit line 98: the window has to be (re)started.
NeedsReset(reset, t) == reset = NoVal \/ reset < t

\* _check_mint_limit lines 112-113.
MintLimitReached(count) == (IF count = NoVal THEN 0 ELSE count) >= MaxMintsPerDay

\* _refresh_token line 214.
ExpiryTime(t, expires_in) == t + expires_in - StoreBuffer

\* `except Exception` (lines 81, 149, 248) catches every exception its body
\* raises, fastapi.HTTPException included: it derives from Exception.
HandlerCatches(handler, exc) ==
    \/ handler = "Exception"
    \/ handler = exc

\* A manager is built with a store client or without one (__init__ line 21).
TokInit ==
    /\ now = 0 /\ ticks = 0 /\ fails = 0
    /\ lock_until = NoVal /\ lock_owner = 0
    /\ r_token = NoVal /\ r_expiry = NoVal /\ r_ttl = NoVal
    /\ mint_count \in InitMintCounts
    /\ mint_reset = IF mint_count = NoVal THEN NoVal ELSE MintWindow
    /\ pc = [p \in Procs |-> "idle"]
    /\ \E client \in BOOLEAN : avail = [p \in Procs |-> client]
    /\ held = [p \in Procs |-> FALSE]
    /\ loc = [p \in Procs |-> NoLocals]
    /\ out = [p \in Procs |-> NoOutcome]
    /\ hist = [p \in Procs |-> NoHist]
    /\ calls = 0 /\ posts = 0 /\ batchPosts = 0 /\ resets = 0
    /\ minted = IF mint_count = NoVal THEN 0 ELSE mint_count

storeVars == <<lock_until, lock_owner, r_token, r_expiry, r_ttl, mint_count, mint_reset>>

\* Clock advances the exploration takes: the lock TTL, a token lifetime less
\* the buffer of line 75 (the stored expiry is past, the keys are still
\* present), a token lifetime, and just past a mint window.
TimeSteps == {LockTTL, DefaultExpiresIn - ExpiryBuffer, DefaultExpiresIn,
              MintWindow + 1}

\* A store operation answers (TRUE) or raises (FALSE).
StoreAnswers == IF fails < MaxStoreFails THEN {TRUE, FALSE} ELSE {TRUE}
Answered(up) == fails' = IF up THEN fails ELSE fails + 1

\* The call returns or raises.  get_access_token lines 81-86: whatever was
\* raised leaves as HTTP 503 "Failed to get access token"; detail keeps the
\* original error.
TokExit(p, res, det, tok) ==
    /\ pc' = [pc EXCEPT ![p] = "idle"]
    /\ out' = [out EXCEPT ![p] = [res |-> res, detail |-> det, token |-> tok]]
    /\ loc' = [loc EXCEPT ![p] = NoLocals]

\* The exception _refresh_token raises for each cause: lines 145-148 (quota),
\* 157-161 (lock not acquired), 244-247 (RequestException), 250-253 (any
\* other exception of the try of line 165); a store error of lines 71-72 is
\* raised by the client library.
RaisedError(cause) ==
    CASE cause = "quota" ->
           [type |-> "HTTPException", status_code |-> 503,
            detail |-> "Daily token mint limit reached. Please try again later."]
      [] cause = "in_progress" ->
           [type |-> "HTTPException", status_code |-> 503,
            detail |-> "Token refresh in progress. Please try again shortly."]
      [] cause = "refresh_failed" ->
           [type |-> "HTTPException", status_code |-> 503,
            detail |-> "Failed to refresh token. Please try again later."]
      [] cause = "unexpected" ->
           [type |-> "HTTPException", status_code |-> 500,
            detail |-> "An unexpected error occurred"]
      [] OTHER ->
           [type |-> "RedisError", status_code |-> NoVal, detail |-> "store"]

\* get_access_token lines 81-86: what the caller receives when the try of
\* line 69 raised.
SurfacedError(cause) ==
    IF HandlerCatches("Exception", RaisedError(cause).type)
      THEN [type |-> "HTTPException", status_code |-> 503,
            detail |-> "Failed to get access token"]
      ELSE RaisedError(cause)

\* Where _refresh_token goes first (line 140).
RefreshEntry(p) == IF avail[p] THEN "mint_get_reset" ELSE "post"

\* A caller invokes get_access_token (line 70: the cache is read only while
\* redis_available).
TokCall(p) ==
    /\ pc[p] = "idle"
    /\ calls < MaxCalls
    /\ calls' = calls + 1
    /\ pc' = [pc EXCEPT ![p] = IF avail[p] THEN "read_token" ELSE RefreshEntry(p)]
    /\ batchPosts' = IF \A q \in Procs : pc[q] = "idle" THEN 0 ELSE batchPosts
    /\ out' = [out EXCEPT ![p] = NoOutcome]
    /\ hist' = [hist EXCEPT ![p] = NoHist]
    /\ UNCHANGED <<now, ticks, fails, storeVars, avail, held, loc, posts, resets, minted>>

\* Line 71: token = redis.get(token_key).
TokReadToken(p) ==
    /\ pc[p] = "read_token"
    /\ \E up \in StoreAnswers :
         /\ Answered(up)
         /\ IF up
              THEN /\ loc' = [loc EXCEPT ![p].token = CachedToken]
                   /\ pc' = [pc EXCEPT ![p] = "read_expiry"]
                   /\ hist' = [hist EXCEPT ![p].expAtRead = CachedExpiry]
                   /\ UNCHANGED out
              ELSE TokExit(p, "http503", "store_error", NoVal) /\ UNCHANGED hist
    /\ UNCHANGED <<now, ticks, storeVars, avail, held, calls, posts,
                   batchPosts, resets, minted>>

\* Lines 72-79: token_expiry = redis.get(token_expiry_key); serve the cached
\* token or go on to _refresh_token.
TokReadExpiry(p) ==
    /\ pc[p] = "read_expiry"
    /\ \E up \in StoreAnswers :
         /\ Answered(up)
         /\ IF ~up
              THEN TokExit(p, "http503", "store_error", NoVal)
              ELSE IF TokenValid(loc[p].token, CachedExpiry, now)
                     THEN TokExit(p, "token", "none", loc[p].token)
                     ELSE /\ pc' = [pc EXCEPT ![p] = RefreshEntry(p)]
                          /\ UNCHANGED <<out, loc>>
    /\ UNCHANGED <<now, ticks, storeVars, avail, held, hist, calls, posts,
                   batchPosts, resets, minted>>

\* _check_mint_limit lines 95-98: read the reset instant and the clock.  A store
\* error (line 119) clears redis_available, so the lock is skipped afterwards.
TokMintGetReset(p) ==
    /\ pc[p] = "mint_get_reset"
    /\ \E up \in StoreAnswers :
         /\ Answered(up)
         /\ IF up
              THEN /\ loc' = [loc EXCEPT ![p].current_time = now]
                   /\ pc' = [pc EXCEPT ![p] =
                               IF NeedsReset(mint_reset, now) THEN "mint_do_reset"
                                                              ELSE "mint_get_count"]
                   /\ UNCHANGED avail
              ELSE /\ avail' = [avail EXCEPT ![p] = FALSE]
                   /\ pc' = [pc EXCEPT ![p] = "post"]
                   /\ UNCHANGED loc
    /\ UNCHANGED <<now, ticks, storeVars, held, out, hist, calls, posts,
                   batchPosts, resets, minted>>

\* _check_mint_limit lines 100-108: the pipeline that restarts the window.
TokMintDoReset(p) ==
    /\ pc[p] = "mint_do_reset"
    /\ \E up \in StoreAnswers :
         /\ Answered(up)
         /\ IF up
              THEN /\ mint_count' = 0
                   /\ mint_reset' = loc[p].current_time + MintWindow
                   /\ resets' = resets + 1
                   /\ minted' = IF NeedsReset(mint_reset, now) THEN 0 ELSE minted
                   /\ pc' = [pc EXCEPT ![p] = "lock"]
                   /\ UNCHANGED avail
              ELSE /\ avail' = [avail EXCEPT ![p] = FALSE]
                   /\ pc' = [pc EXCEPT ![p] = "post"]
                   /\ UNCHANGED <<mint_count, mint_reset, resets, minted>>
    /\ UNCHANGED <<now, ticks, lock_until, lock_owner, r_token, r_expiry, r_ttl,
                   held, loc, out, hist, calls, posts, batchPosts>>

\* _check_mint_limit lines 111-117 and _refresh_token lines 142-151: the quota
\* error is raised inside the try whose handler is `except Exception`.
TokMintGetCount(p) ==
    /\ pc[p] = "mint_get_count"
    /\ \E up \in StoreAnswers :
         /\ Answered(up)
         /\ IF up
              THEN /\ hist' = [hist EXCEPT ![p].quotaSeen = MintLimitReached(mint_count)]
                   /\ IF /\ MintLimitReached(mint_count)
                         /\ ~HandlerCatches("Exception", "HTTPException")
                        THEN TokExit(p, "http503", "quota", NoVal)
                        ELSE /\ pc' = [pc EXCEPT ![p] = "lock"]
                             /\ UNCHANGED <<out, loc>>
                   /\ UNCHANGED avail
              ELSE /\ avail' = [avail EXCEPT ![p] = FALSE]
                   /\ pc' = [pc EXCEPT ![p] = "post"]
                   /\ UNCHANGED <<hist, out, loc>>
    /\ UNCHANGED <<now, ticks, storeVars, held, calls, posts, batchPosts, resets, minted>>

\* _acquire_lock lines 30-31: no store operation when the flag is already set.
LockShortCircuit(p) == held[p]

\* _acquire_lock lines 34-39: SET "ebay_token_lock" "1" EX 60 NX.
SetNxSucceeds == ~LockPresent

\* _refresh_token lines 154-161 with _acquire_lock lines 28-43.
TokLock(p) ==
    /\ pc[p] = "lock"
    /\ IF LockShortCircuit(p)
         THEN /\ pc' = [pc EXCEPT ![p] = "post"]
              /\ hist' = [hist EXCEPT ![p].cs = TRUE]
              /\ UNCHANGED <<fails, lock_until, lock_owner, held, out, loc>>
         ELSE \E up \in StoreAnswers :
                /\ Answered(up)
                /\ IF up /\ SetNxSucceeds
                     THEN /\ lock_until' = now + LockTTL
                          /\ lock_owner' = p
                          /\ held' = [held EXCEPT ![p] = TRUE]
                          /\ hist' = [hist EXCEPT ![p].cs = TRUE, ![p].tookLock = TRUE]
                          /\ pc' = [pc EXCEPT ![p] = "post"]
                          /\ UNCHANGED <<out, loc>>
                     ELSE \* SET NX answered None, or the store raised (lines 41-43)
                          /\ TokExit(p, "http503", "in_progress", NoVal)
                          /\ UNCHANGED <<lock_until, lock_owner, held, hist>>
    /\ UNCHANGED <<now, ticks, r_token, r_expiry, r_ttl, mint_count, mint_reset,
                   avail, calls, posts, batchPosts, resets, minted>>

\* _refresh_token lines 166-201: without credentials HTTP 500 is raised inside
\* the try (and re-raised by `except Exception`); otherwise the request is sent.
TokPost(p) ==
    /\ pc[p] = "post"
    /\ \E creds \in BOOLEAN :
         IF creds
           THEN /\ posts' = posts + 1
                /\ batchPosts' = batchPosts + 1
                /\ loc' = [loc EXCEPT ![p].access_token = posts + 1]
                /\ pc' = [pc EXCEPT ![p] = "await_response"]
           ELSE /\ loc' = [loc EXCEPT ![p].exc = "unexpected"]
                /\ pc' = [pc EXCEPT ![p] = "finally"]
                /\ UNCHANGED <<posts, batchPosts>>
    /\ UNCHANGED <<now, ticks, fails, storeVars, avail, held, out, hist, calls,
                   resets, minted>>

\* What the token endpoint answers: a token, an HTTP/transport error
\* (requests.RequestException), or a body without access_token (ValueError).
Responses == {"ok", "http_error", "no_token"}

\* _refresh_token lines 201-214 and the handlers of lines 242-253.
TokResponse(p) ==
    /\ pc[p] = "await_response"
    /\ \E r \in Responses :
         IF r = "ok"
           THEN /\ loc' = [loc EXCEPT ![p].expiry_time = ExpiryTime(now, DefaultExpiresIn)]
                /\ pc' = [pc EXCEPT ![p] = IF avail[p] THEN "incr" ELSE "finally"]
                /\ minted' = minted + 1
           ELSE /\ loc' = [loc EXCEPT ![p].exc =
                             IF r = "http_error" THEN "refresh_failed"
                                                 ELSE "unexpected"]
                /\ pc' = [pc EXCEPT ![p] = "finally"]
                /\ UNCHANGED minted
    /\ UNCHANGED <<now, ticks, fails, storeVars, avail, held, out, hist, calls,
                   posts, batchPosts, resets>>

\* _increment_mint_count lines 124-131, called at line 231 before the
\* pipeline runs: INCR ebay:token_mint_count.
TokIncr(p) ==
    /\ pc[p] = "incr"
    /\ \E up \in StoreAnswers :
         /\ Answered(up)
         /\ IF up
              THEN /\ mint_count' = (IF mint_count = NoVal THEN 0 ELSE mint_count) + 1
                   /\ UNCHANGED avail
              ELSE /\ avail' = [avail EXCEPT ![p] = FALSE]
                   /\ UNCHANGED mint_count
    /\ pc' = [pc EXCEPT ![p] = "exec"]
    /\ UNCHANGED <<now, ticks, lock_until, lock_owner, r_token, r_expiry, r_ttl,
                   mint_reset, held, loc, out, hist, calls, posts, batchPosts,
                   resets, minted>>

\* _refresh_token lines 219-238: pipe.execute() stores token, expiry and type
\* with a TTL of expires_in; a store error clears redis_available.
TokExec(p) ==
    /\ pc[p] = "exec"
    /\ \E up \in StoreAnswers :
         /\ Answered(up)
         /\ IF up
              THEN /\ r_token' = loc[p].access_token
                   /\ r_expiry' = loc[p].expiry_time
                   /\ r_ttl' = now + DefaultExpiresIn
                   /\ UNCHANGED avail
              ELSE /\ avail' = [avail EXCEPT ![p] = FALSE]
                   /\ UNCHANGED <<r_token, r_expiry, r_ttl>>
    /\ pc' = [pc EXCEPT ![p] = "finally"]
    /\ UNCHANGED <<now, ticks, lock_until, lock_owner, mint_count, mint_reset,
                   held, loc, out, hist, calls, posts, batchPosts, resets, minted>>

\* The finally clause, line 256: the release is attempted only while
\* redis_available is still set; _release_lock line 47 returns early unless
\* the flag is set.
ReleaseAttempted(p) == avail[p] /\ held[p]

\* _release_lock lines 45-54 (DELETE "ebay_token_lock", whoever set it) and
\* the return or raise of _refresh_token.
TokFinally(p) ==
    /\ pc[p] = "finally"
    /\ IF ReleaseAttempted(p)
         THEN \E up \in StoreAnswers :
                /\ Answered(up)
                /\ IF up
                     THEN /\ lock_until' = NoVal
                          /\ lock_owner' = 0
                          /\ held' = [held EXCEPT ![p] = FALSE]
                     ELSE UNCHANGED <<lock_until, lock_owner, held>>
         ELSE UNCHANGED <<fails, lock_until, lock_owner, held>>
    /\ hist' = [hist EXCEPT ![p].cs = FALSE,
                            ![p].keyLeft = /\ hist[p].tookLock
                                           /\ lock_owner' = p
                                           /\ KeyPresent(lock_until', now)]
    /\ IF loc[p].exc = "none"
         THEN TokExit(p, "token", "none", loc[p].access_token)
         ELSE TokExit(p, "http503", loc[p].exc, NoVal)
    /\ UNCHANGED <<now, ticks, r_token, r_expiry, r_ttl, mint_count, mint_reset,
                   avail, calls, posts, batchPosts, resets, minted>>

\* The clock advances: between calls, or while a call waits for the token
\* endpoint (requests.post has no timeout); the store operations of a call
\* follow one another without delay.
TokTick ==
    /\ ticks < MaxTicks
    /\ \A p \in Procs : pc[p] \in {"idle", "await_response"}
    /\ \E d \in TimeSteps : now' = now + d
    /\ ticks' = ticks + 1
    /\ UNCHANGED <<fails, storeVars, pc, avail, held, loc, out, hist, calls, posts,
                   batchPosts, resets, minted>>

TokNext ==
    \/ \E p \in Procs : TokCall(p) /\ UNCHANGED notTok
    \/ \E p \in Procs : TokReadToken(p) /\ UNCHANGED notTok
    \/ \E p \in Procs : TokReadExpiry(p) /\ UNCHANGED notTok
    \/ \E p \in Procs : TokMintGetReset(p) /\ UNCHANGED notTok
    \/ \E p \in Procs : TokMintDoReset(p) /\ UNCHANGED notTok
    \/ \E p \in Procs : TokMintGetCount(p) /\ UNCHANGED notTok
    \/ \E p \in Procs : TokLock(p) /\ UNCHANGED notTok
    \/ \E p \in Procs : TokPost(p) /\ UNCHANGED notTok
    \/ \E p \in Procs : TokResponse(p) /\ UNCHANGED notTok
    \/ \E p \in Procs : TokIncr(p) /\ UNCHANGED notTok
    \/ \E p \in Procs : TokExec(p) /\ UNCHANGED notTok
    \/ \E p \in Procs : TokFinally(p) /\ UNCHANGED notTok
    \/ TokTick /\ UNCHANGED notTok


\* ========================================================================
\* RateLimiter (core/rate_limiter.py)
\* ========================================================================

\* The keys f"rate_limit:{key_prefix}:{client_id}" in use: k1 carries the
\* steady traffic, k2 is another identity or resource.
Keys == {"k1", "k2"}

LimitTypes == {"public", "authenticated", "ebay_api", "unlisted"}

\* Mutation of DefaultLimit: one request per period for every class.
DefaultLimitOne(limit_type) == 1

\* Line 95: self.default_limits.get(limit_type, self.default_limits['public']).
DefaultLimit(limit_type) ==
    CASE limit_type = "public" -> PublicLimit
      [] limit_type = "authenticated" -> AuthenticatedLimit
      [] limit_type = "ebay_api" -> EbayApiLimit
      [] OTHER -> PublicLimit

Max(a, b) == IF a >= b THEN a ELSE b

\* Mutation of FailOpenResult: the limiter refuses when the store fails.
FailClosedResult(limit) ==
    [kind |-> "429", limit |-> limit, remaining |-> 0, retry_after |-> Period]

\* Lines 99-106 and 159-167: the result of degraded mode and of the
\* `except Exception` handler.
FailOpenResult(limit) ==
    [kind |-> "allow", limit |-> limit, remaining |-> limit, retry_after |-> 0]

\* Lines 152-157.
NormalResult(limit, count) ==
    [kind |-> "allow", limit |-> limit, remaining |-> Max(0, limit - count),
     retry_after |-> 0]

\* Lines 138-150: HTTP 429 with Retry-After = max(0, reset_time - current_time),
\* reset_time being current_time + period.
ThrottleError(limit, count) ==
    [kind |-> "429", limit |-> limit, remaining |-> Max(0, limit - count),
     retry_after |-> Max(0, Period)]

\* Line 116: ZADD key {str(current_time): current_time}; the member is the
\* second itself, so a second is in the set once however many calls it saw.
ZAdd(zset) == zset \cup {0}

\* Line 122: ZCOUNT key window_start current_time, both ends included.
ZCount(zset) == Cardinality({a \in zset : a <= Period})

\* The 429 of line 138 is raised inside the try of line 111, whose handler
\* (line 159) is `except Exception`.
ThrottlePropagates == ~HandlerCatches("Exception", "HTTPException")

NoSleep == [key |-> "none", left |-> NoVal, limit_type |-> "none"]

\* Line 74: block_timeout: int = 60.
BlockTimeout == 60

\* History is kept up to two sleeps of line 135.
BlockedCap == 2 * Period
NoResult == [kind |-> "none", limit |-> NoVal, remaining |-> NoVal,
             retry_after |-> NoVal]

\* rl_out: the key and the result of the last call, with the request_count it
\* observed and the path it took ("no_store": degraded mode; "store_error" and
\* "throttled": through the handler of line 159; "counted": lines 127-157;
\* "blocked": asleep at line 135).
Outcome(k, res, count, path) == [key |-> k, res |-> res, count |-> count, path |-> path]
NoOutcomeYet == Outcome("none", NoResult, NoVal, "none")

\* The limiter is built with a store client or without one (line 16).
RlInit ==
    /\ rl_avail \in BOOLEAN
    /\ rl_class = [k \in Keys |-> IF k = "k1" THEN "public" ELSE "authenticated"]
    /\ rl_zset = [k \in Keys |-> {}]
    /\ rl_ttl = [k \in Keys |-> NoVal]
    /\ rl_sleep = NoSleep
    /\ rl_out = NoOutcomeYet
    /\ rl_n0 = [k \in Keys |-> 0]
    /\ rl_ok1 = [k \in Keys |-> {}]
    /\ rl_ok2 = [k \in Keys |-> {}]
    /\ rl_irr = {}
    /\ rl_thr = {}
    /\ rl_last = [k \in Keys |-> NoVal]
    /\ rl_gap = NoVal
    /\ rl_blocked = 0

\* The state of the limiter in the specifications of the other components.
RlQuiet ==
    /\ rl_avail = TRUE
    /\ rl_class = [k \in Keys |-> "public"]
    /\ rl_zset = [k \in Keys |-> {}]
    /\ rl_ttl = [k \in Keys |-> NoVal]
    /\ rl_sleep = NoSleep
    /\ rl_out = NoOutcomeYet
    /\ rl_n0 = [k \in Keys |-> 0]
    /\ rl_ok1 = [k \in Keys |-> {}]
    /\ rl_ok2 = [k \in Keys |-> {}]
    /\ rl_irr = {}
    /\ rl_thr = {}
    /\ rl_last = [k \in Keys |-> NoVal]
    /\ rl_gap = NoVal
    /\ rl_blocked = 0

\* The key is present while its TTL runs; in the second in which the TTL
\* ends a call may come before or after the expiry.
KeyAlive(k) ==
    IF rl_ttl[k] = NoVal THEN {FALSE}
    ELSE IF rl_ttl[k] > 0 THEN {TRUE} ELSE {TRUE, FALSE}

\* Bound of the exploration.  k1 is called in every second, or not at all
\* for a period; a second call in one second, a k2 call, a blocking call and
\* a store operation that raises are irregular.  At most MaxIrregular
\* irregular calls lie in the window, each in a second of its own, made
\* while the window of k1 is at one of its edges: empty, just started, or
\* within one of the limit.
EdgeRuns == {0, 1, PublicLimit - 1, PublicLimit, PublicLimit + 1}
IrregularAllowed ==
    /\ 0 \notin rl_irr
    /\ Cardinality(rl_irr) < MaxIrregular
    /\ Cardinality(rl_zset["k1"]) \in EdgeRuns

WakesNow(k) == IF rl_sleep.key = k /\ rl_sleep.left = 0 THEN 1 ELSE 0

\* History: a call on k returned normally in the present second.
NoteNormal(k) ==
    /\ rl_ok1' = [rl_ok1 EXCEPT ![k] = @ \cup {0}]
    /\ rl_ok2' = [rl_ok2 EXCEPT ![k] = IF 0 \in rl_ok1[k] THEN @ \cup {0} ELSE @]

\* The body of limit() from line 95 on, for a call or for the re-evaluation
\* after the sleep of line 135 (the recursive call of line 136).
LimitBody(k, limit_type, block, irregular) ==
    LET limit == DefaultLimit(limit_type) IN
    IF ~rl_avail
      THEN /\ rl_out' = Outcome(k, FailOpenResult(limit), NoVal, "no_store")
           /\ NoteNormal(k)
           /\ rl_sleep' = IF rl_sleep.key = k /\ rl_sleep.left = 0 /\ block
                            THEN NoSleep ELSE rl_sleep
           /\ UNCHANGED <<rl_zset, rl_ttl>>
      ELSE \E up \in (IF irregular THEN {TRUE, FALSE} ELSE {TRUE}) :
           \E alive \in KeyAlive(k) :
             /\ IF ~up
                  THEN \* pipe.execute() raised: handler of line 159
                       /\ rl_out' = Outcome(k, FailOpenResult(limit), NoVal, "store_error")
                       /\ NoteNormal(k)
                       /\ rl_sleep' = IF block /\ rl_sleep.key = k THEN NoSleep
                                                                  ELSE rl_sleep
                       /\ UNCHANGED <<rl_zset, rl_ttl>>
                  ELSE LET zset == ZAdd(IF alive THEN rl_zset[k] ELSE {})
                           request_count == ZCount(zset)
                       IN /\ rl_zset' = [rl_zset EXCEPT ![k] = zset]
                          /\ rl_ttl' = [rl_ttl EXCEPT ![k] = Period]
                          /\ IF request_count > limit
                               THEN IF block
                                      THEN /\ rl_sleep' = [key |-> k, left |-> Max(0, Period),
                                                           limit_type |-> limit_type]
                                           /\ rl_out' = Outcome(k, NoResult, request_count, "blocked")
                                           /\ UNCHANGED <<rl_ok1, rl_ok2>>
                                      ELSE IF ThrottlePropagates
                                             THEN /\ rl_out' = Outcome(k, ThrottleError(limit, request_count),
                                                                     request_count, "counted")
                                                  /\ UNCHANGED <<rl_sleep, rl_ok1, rl_ok2>>
                                             ELSE /\ rl_out' = Outcome(k, FailOpenResult(limit),
                                                                     request_count, "throttled")
                                                  /\ NoteNormal(k)
                                                  /\ UNCHANGED rl_sleep
                               ELSE /\ rl_out' = Outcome(k, NormalResult(limit, request_count),
                                                       request_count, "counted")
                                    /\ NoteNormal(k)
                                    /\ rl_sleep' = IF block /\ rl_sleep.key = k
                                                     THEN NoSleep ELSE rl_sleep

\* History: the call on k that ends in rl_out' came after rl_last[k] seconds
\* without calls on k, and took line 132 or not.
NoteCall(k, limit_type) ==
    /\ rl_thr' = IF rl_out'.count > DefaultLimit(limit_type)
                   THEN rl_thr \cup {k} ELSE rl_thr
    /\ rl_gap' = rl_last[k]
    /\ rl_last' = [rl_last EXCEPT ![k] = 0]

\* A caller invokes limit(request, key_prefix, limit_type, block) on key k.
RlLimit(k, block) ==
    /\ rl_n0[k] + WakesNow(k) < 2
    /\ block => rl_sleep = NoSleep
    /\ rl_n0' = [rl_n0 EXCEPT ![k] = @ + 1]
    /\ \E irregular \in BOOLEAN :
         /\ (k # "k1" \/ block \/ rl_n0[k] + WakesNow(k) >= 1) => irregular
         /\ irregular => IrregularAllowed
         /\ rl_irr' = IF irregular THEN rl_irr \cup {0} ELSE rl_irr
         /\ LimitBody(k, rl_class[k], block, irregular)
    /\ NoteCall(k, rl_class[k])
    /\ rl_blocked' = IF block THEN 0 ELSE rl_blocked
    /\ UNCHANGED <<rl_avail, rl_class>>

\* Lines 135-136: the sleep is over and limit() calls itself.
RlWake ==
    /\ rl_sleep # NoSleep
    /\ rl_sleep.left = 0
    /\ LimitBody(rl_sleep.key, rl_sleep.limit_type, TRUE, FALSE)
    /\ NoteCall(rl_sleep.key, rl_sleep.limit_type)
    /\ UNCHANGED rl_blocked
    /\ rl_irr' = IF rl_sleep' # NoSleep THEN rl_irr \cup {0} ELSE rl_irr
    /\ UNCHANGED <<rl_avail, rl_class, rl_n0>>

Older(ages, d) == {a + d : a \in {b \in ages : b + d <= Period}}

Elapse(d) ==
    /\ rl_zset' = [k \in Keys |->
                     IF rl_ttl[k] # NoVal /\ rl_ttl[k] - d >= 0
                       THEN Older(rl_zset[k], d) ELSE {}]
    /\ rl_ttl' = [k \in Keys |->
                     IF rl_ttl[k] # NoVal /\ rl_ttl[k] - d >= 0
                       THEN rl_ttl[k] - d ELSE NoVal]
    /\ rl_ok1' = [k \in Keys |-> Older(rl_ok1[k], d)]
    /\ rl_ok2' = [k \in Keys |-> Older(rl_ok2[k], d)]
    /\ rl_n0' = [k \in Keys |-> 0]
    /\ rl_sleep' = IF rl_sleep = NoSleep THEN NoSleep
                   ELSE [rl_sleep EXCEPT !.left = @ - d]
    /\ rl_last' = [k \in Keys |->
                     IF rl_last[k] = NoVal THEN NoVal
                     ELSE IF rl_last[k] + d >= Period THEN Period
                     ELSE rl_last[k] + d]
    /\ rl_gap' = NoVal
    /\ rl_blocked' = IF rl_sleep = NoSleep THEN rl_blocked
                     ELSE IF rl_blocked + d >= BlockedCap THEN BlockedCap
                     ELSE rl_blocked + d
    /\ UNCHANGED rl_thr

\* One second passes.
RlTick ==
    /\ rl_sleep # NoSleep => rl_sleep.left >= 1
    /\ rl_n0["k1"] >= 1
    /\ rl_irr' = Older(rl_irr, 1)
    /\ Elapse(1)
    /\ rl_out' = NoOutcomeYet
    /\ UNCHANGED <<rl_avail, rl_class>>

\* No call is made for a full period or longer (or until the sleeper wakes).
IdleSteps ==
    IF rl_sleep = NoSleep THEN {Period, Period + 1}
    ELSE IF rl_sleep.left >= 2 THEN {rl_sleep.left} ELSE {}

RlIdle ==
    /\ \E d \in IdleSteps :
         /\ rl_irr' = Older(rl_irr, d)
         /\ Elapse(d)
    /\ rl_out' = NoOutcomeYet
    /\ UNCHANGED <<rl_avail, rl_class>>

\* Callers that raise on throttling (block = False, the default).
RlNext ==
    \/ \E k \in Keys : RlLimit(k, FALSE) /\ UNCHANGED notRl
    \/ RlTick /\ UNCHANGED notRl
    \/ RlIdle /\ UNCHANGED notRl

\* Callers that may also ask to block.
RlBlockNext ==
    \/ \E k \in Keys, block \in BOOLEAN : RlLimit(k, block) /\ UNCHANGED notRl
    \/ RlWake /\ UNCHANGED notRl
    \/ RlTick /\ UNCHANGED notRl
    \/ RlIdle /\ UNCHANGED notRl

\* ========================================================================
\* Character strings
\* ========================================================================

\* Proxy addresses and target URLs are sequences of one-character strings.

\* Python's "sub in s".
Contains(sub, s) ==
    \E i \in 0..(Len(s) - Len(sub)) : SubSeq(s, i + 1, i + Len(sub)) = sub

\* Python's s.find(sub): the offset of the first occurrence, -1 if none.
Find(sub, s) ==
    IF Contains(sub, s)
    THEN CHOOSE i \in 0..(Len(s) - Len(sub)) :
             /\ SubSeq(s, i + 1, i + Len(sub)) = sub
             /\ \A j \in 0..(i - 1) : SubSeq(s, j + 1, j + Len(sub)) # sub
    ELSE -1

\* Python's s.replace(old, new) for a non-empty old: every occurrence, left
\* to right, without overlap.
RECURSIVE Replace(_, _, _)
Replace(s, old, new) ==
    LET i == Find(old, s)
    IN  IF i = -1
        THEN s
        ELSE SubSeq(s, 1, i) \o new
                 \o Replace(SubSeq(s, i + Len(old) + 1, Len(s)), old, new)

Min(S) == CHOOSE x \in S : \A y \in S : x <= y

\* ========================================================================
\* ProxyManager (proxy_manager.py)
\* ========================================================================

Http == <<"h", "t", "t", "p">>
SchemeSep == <<":", "/", "/">>
At == <<"@">>
\* settings.PROXY_USER and settings.PROXY_PASSWORD, when configured.
ProxyUser == <<"u">>
ProxyPassword == <<"w">>
\* A missing address (None or the empty string).
NoUrl == <<>>

\* Configured addresses: host:port, a second port with the first as prefix,
\* and an address written with its scheme.
AddrA == <<"a", ":", "8">>
AddrA0 == <<"a", ":", "8", "0">>
AddrS == <<"s", ":", "/", "/", "b">>
Pools == {<<AddrA, AddrS>>, <<AddrA, AddrA0>>, <<AddrA0, AddrA>>}

\* ProxyInfo(proxy=proxy); last_used records whether the instant is set,
\* last_failed is kept as an age: the seconds since that instant (at most
\* Cooldown, which stands for that or longer), NoVal while it is None.
\* success_count and avg_response_time are statistics that only get_stats
\* reads.
ProxyInfo(proxy) ==
    [proxy |-> proxy, last_used |-> FALSE, last_failed |-> NoVal,
     failures |-> 0, enabled |-> TRUE]

\* _initialize_proxies: no records unless proxying is enabled.
InitialProxies(enabled, proxy_list) ==
    IF ~enabled \/ proxy_list = <<>>
    THEN <<>>
    ELSE [i \in 1..Len(proxy_list) |-> ProxyInfo(proxy_list[i])]

\* _format_proxy: the "http" entry of the dictionary it returns.
FormatProxy(proxy_url, creds) ==
    IF proxy_url = NoUrl
    THEN NoUrl
    ELSE IF Contains(At, proxy_url)
    THEN Http \o SchemeSep \o proxy_url
    ELSE IF creds
    THEN LET i == Find(SchemeSep, proxy_url)
             protocol == IF i = -1 THEN Http ELSE SubSeq(proxy_url, 1, i)
             rest == IF i = -1 THEN proxy_url
                     ELSE SubSeq(proxy_url, i + Len(SchemeSep) + 1, Len(proxy_url))
         IN  protocol \o SchemeSep \o ProxyUser \o <<":">> \o ProxyPassword \o At \o rest
    ELSE proxy_url

NoProxy == [idx |-> 0, url |-> NoUrl, skipped |-> 0]
\* px_ret before any get_proxy call.
NoReturn == [idx |-> 0, url |-> NoUrl, enabled |-> TRUE, skipped |-> 0]

\* Mutation of GetProxyFrom: the record the rotation lands on is returned
\* whether it is enabled or not.
GetProxyNoSkip(enabled, creds, prx, index) ==
    IF ~enabled \/ prx = <<>>
    THEN [proxies |-> prx, index |-> index, ret |-> NoProxy]
    ELSE LET first == (index + 1) % Len(prx)
         IN  [proxies |-> [prx EXCEPT ![first + 1].last_used = TRUE], index |-> first,
              ret |-> [idx |-> first + 1,
                       url |-> FormatProxy(prx[first + 1].proxy, creds),
                       skipped |-> 0]]

\* Mutation of GetProxyFrom: the advanced rotation index is not written
\* back, as when two calls read it before either stores it.
GetProxyStale(enabled, creds, prx, index) ==
    [GetProxyNoSkip(enabled, creds, prx, index) EXCEPT !.index = index]

\* get_proxy as a function of the manager's state: the records, the rotation
\* index and the result afterwards (idx: the record the result was made
\* from, skipped: the disabled records passed over).
GetProxyFrom(enabled, creds, prx, index) ==
    IF ~enabled \/ prx = <<>>
    THEN [proxies |-> prx, index |-> index, ret |-> NoProxy]
    ELSE LET n == Len(prx)
             first == (index + 1) % n
             used == [prx EXCEPT ![first + 1].last_used = TRUE]
             ks == {k \in 0..n : prx[((first + k) % n) + 1].enabled}
         IN  IF ks = {}
             THEN [proxies |-> used, index |-> (first + n) % n, ret |-> NoProxy]
             ELSE LET at == (first + Min(ks)) % n
                  IN  [proxies |-> used, index |-> at,
                       ret |-> [idx |-> at + 1,
                                url |-> FormatProxy(prx[at + 1].proxy, creds),
                                skipped |-> Min(ks)]]

\* The record mark_failed and mark_success update: the first whose address
\* occurs in proxy_url (0: none).
FirstMatch(prx, proxy_url) ==
    LET hits == {i \in 1..Len(prx) : Contains(prx[i].proxy, proxy_url)}
    IN  IF hits = {} THEN 0 ELSE Min(hits)

DisableThreshold == 3

\* mark_failed as a function of the records.
MarkFailedOn(prx, proxy_url) ==
    LET i == FirstMatch(prx, proxy_url)
    IN  IF proxy_url = NoUrl \/ prx = <<>> \/ i = 0
        THEN prx
        ELSE [prx EXCEPT ![i] =
                 [@ EXCEPT !.failures = @ + 1,
                           !.last_failed = 0,
                           !.enabled = IF prx[i].failures + 1 >= DisableThreshold
                                       THEN FALSE ELSE @]]

\* mark_success as a function of the records.
MarkSuccessOn(prx, proxy_url) ==
    LET i == FirstMatch(prx, proxy_url)
    IN  IF proxy_url = NoUrl \/ prx = <<>> \/ i = 0
        THEN prx
        ELSE [prx EXCEPT ![i] = [@ EXCEPT !.failures = 0, !.enabled = TRUE]]

\* History: the records a reported address belongs to, that is, the records
\* whose configured address, or whose address as get_proxy hands it out, it is.
Owners(prx, creds, proxy_url) ==
    {i \in 1..Len(prx) :
        proxy_url # NoUrl /\ proxy_url \in {prx[i].proxy, FormatProxy(prx[i].proxy, creds)}}

OwnAfterFailed(own, prx, creds, proxy_url) ==
    [i \in DOMAIN own |-> IF i \in Owners(prx, creds, proxy_url) THEN own[i] + 1 ELSE own[i]]

OwnAfterSuccess(own, prx, creds, proxy_url) ==
    [i \in DOMAIN own |-> IF i \in Owners(prx, creds, proxy_url) THEN 0 ELSE own[i]]

\* The addresses callers report: none, a configured address (the health
\* check), or an address as get_proxy hands it out (the scraping engine).
ReportedUrls ==
    {NoUrl} \cup {proxies[i].proxy : i \in DOMAIN proxies}
            \cup {FormatProxy(proxies[i].proxy, PROXY_CREDS) : i \in DOMAIN proxies}

\* Line 29: self._health_check_interval = 300.
HealthCheckInterval == 300

\* Line 157: the cooldown after the last failure of a disabled proxy.
Cooldown == 3600

NoResp == [idx |-> 0, ok |-> FALSE, enabled_before |-> FALSE, enabled_after |-> FALSE,
           gated |-> FALSE]

\* Line 30: _last_health_check = datetime.min, an interval or longer ago.
HcInit ==
    /\ last_health_check = HealthCheckInterval
    /\ px_pending = {}
    /\ px_sent = {}
    /\ px_resp = NoResp

PxInit ==
    /\ PROXY_ENABLED \in BOOLEAN
    /\ PROXY_CREDS \in BOOLEAN
    /\ \E proxy_list \in Pools : proxies = InitialProxies(PROXY_ENABLED, proxy_list)
    /\ current_proxy_index = -1
    /\ px_ret = NoReturn
    /\ px_own = [i \in DOMAIN proxies |-> 0]
    /\ HcInit

PxQuiet ==
    /\ PROXY_ENABLED = FALSE
    /\ PROXY_CREDS = FALSE
    /\ proxies = <<>>
    /\ current_proxy_index = -1
    /\ px_ret = NoReturn
    /\ px_own = <<>>
    /\ HcInit

\* get_proxy (lines 51-74).
get_proxy ==
    LET g == GetProxyFrom(PROXY_ENABLED, PROXY_CREDS, proxies, current_proxy_index)
    IN  /\ proxies' = g.proxies
        /\ current_proxy_index' = g.index
        /\ px_ret' = [idx |-> g.ret.idx, url |-> g.ret.url,
                      enabled |-> g.ret.idx = 0 \/ proxies[g.ret.idx].enabled,
                      skipped |-> g.ret.skipped]
        /\ UNCHANGED <<PROXY_ENABLED, PROXY_CREDS, px_own, hcVars>>

\* The failure counters stay within the explored range.
WithinFailures(proxy_url) ==
    /\ \A i \in DOMAIN proxies : Contains(proxies[i].proxy, proxy_url)
                                     => proxies[i].failures < MaxFailures
    /\ \A i \in Owners(proxies, PROXY_CREDS, proxy_url) : px_own[i] < MaxFailures

\* mark_failed (lines 93-109).
mark_failed(proxy_url) ==
    /\ WithinFailures(proxy_url)
    /\ proxies' = MarkFailedOn(proxies, proxy_url)
    /\ px_own' = OwnAfterFailed(px_own, proxies, PROXY_CREDS, proxy_url)
    /\ px_sent' = {} /\ px_resp' = NoResp
    /\ UNCHANGED <<PROXY_ENABLED, PROXY_CREDS, current_proxy_index, px_ret,
                   last_health_check, px_pending>>

\* mark_success (lines 111-134).
mark_success(proxy_url) ==
    /\ proxies' = MarkSuccessOn(proxies, proxy_url)
    /\ px_own' = OwnAfterSuccess(px_own, proxies, PROXY_CREDS, proxy_url)
    /\ px_sent' = {} /\ px_resp' = NoResp
    /\ UNCHANGED <<PROXY_ENABLED, PROXY_CREDS, current_proxy_index, px_ret,
                   last_health_check, px_pending>>

\* _check_proxy_health lines 154-158: the record is passed over only while
\* it is disabled and its last failure is less than the cooldown ago.
\* _check_proxy_health without its cooldown return: every record is probed.
ProbedAll(proxy_info) == TRUE

Probed(proxy_info) ==
    ~(/\ ~proxy_info.enabled
      /\ proxy_info.last_failed # NoVal
      /\ proxy_info.last_failed < Cooldown)

\* Mutation of Gated: the interval is not consulted.
GatedNever(last) == FALSE

\* Lines 141-143: less than the interval has passed since the last check
\* that ran (the age of that check is kept, capped at the interval).
Gated(last) == last < HealthCheckInterval

\* health_check (lines 136-150) up to the requests of line 164: every task
\* of the gather runs to its first await before a response is handled.  A
\* call may come while the probes of an earlier one are still in flight
\* (px_resp.gated records a call that returned at line 143 meanwhile).
health_check ==
    /\ IF ~PROXY_ENABLED \/ proxies = <<>> \/ Gated(last_health_check)
         THEN /\ UNCHANGED <<last_health_check, px_pending, px_sent>>
              /\ px_resp' = [NoResp EXCEPT !.gated = Gated(last_health_check) /\ px_pending # {}]
         ELSE /\ px_resp' = NoResp
              /\ last_health_check' = 0
              /\ px_pending' = {i \in DOMAIN proxies : Probed(proxies[i])}
              /\ px_sent' = {[idx |-> i, enabled |-> proxies[i].enabled,
                              last_failed |-> proxies[i].last_failed] :
                                i \in {j \in DOMAIN proxies : Probed(proxies[j])}}
    /\ UNCHANGED <<PROXY_ENABLED, PROXY_CREDS, proxies, current_proxy_index,
                   px_ret, px_own>>

\* _check_proxy_health lines 162-174: the request of record i is answered
\* with status 200 (ok), or with another status, an error or a timeout.
ProbeResponse(i, ok) ==
    /\ i \in px_pending
    /\ ok \/ WithinFailures(proxies[i].proxy)
    /\ LET proxy_url == proxies[i].proxy
       IN /\ proxies' = IF ok THEN MarkSuccessOn(proxies, proxy_url)
                               ELSE MarkFailedOn(proxies, proxy_url)
          /\ px_own' = IF ok THEN OwnAfterSuccess(px_own, proxies, PROXY_CREDS, proxy_url)
                              ELSE OwnAfterFailed(px_own, proxies, PROXY_CREDS, proxy_url)
    /\ px_pending' = px_pending \ {i}
    /\ px_resp' = [idx |-> i, ok |-> ok, enabled_before |-> proxies[i].enabled,
                    enabled_after |-> proxies'[i].enabled, gated |-> FALSE]
    /\ px_sent' = {}
    /\ UNCHANGED <<PROXY_ENABLED, PROXY_CREDS, current_proxy_index, px_ret,
                   last_health_check>>

\* Clock advances between the operations: a health-check interval, or the
\* cooldown.
ProxyTimeSteps == {HealthCheckInterval, Cooldown}

Aged(age, d, cap) ==
    IF age = NoVal THEN NoVal ELSE IF age + d >= cap THEN cap ELSE age + d

ProxyElapse ==
    /\ px_pending = {}
    /\ \E d \in ProxyTimeSteps :
         /\ proxies' = [i \in DOMAIN proxies |->
                          [proxies[i] EXCEPT !.last_failed = Aged(@, d, Cooldown)]]
         /\ last_health_check' = Aged(last_health_check, d, HealthCheckInterval)
    /\ px_resp' = NoResp
    /\ px_sent' = {}
    /\ UNCHANGED <<PROXY_ENABLED, PROXY_CREDS, current_proxy_index, px_ret, px_own,
                   px_pending>>

\* The manager with its periodic health check.
HcNext ==
    \/ \E proxy_url \in ReportedUrls : mark_failed(proxy_url) /\ UNCHANGED notPx
    \/ \E proxy_url \in ReportedUrls : mark_success(proxy_url) /\ UNCHANGED notPx
    \/ health_check /\ UNCHANGED notPx
    \/ \E i \in DOMAIN proxies, ok \in BOOLEAN : ProbeResponse(i, ok) /\ UNCHANGED notPx
    \/ ProxyElapse /\ UNCHANGED notPx

PxNext ==
    \/ get_proxy /\ UNCHANGED notPx
    \/ \E proxy_url \in ReportedUrls : mark_failed(proxy_url) /\ UNCHANGED notPx
    \/ \E proxy_url \in ReportedUrls : mark_success(proxy_url) /\ UNCHANGED notPx

\* ========================================================================
\* Cookie stores (scraper_engine.py, utils/cookie_manager.py)
\* ========================================================================

\* Targets of the scraping engine: two whose cookie file names coincide, and
\* a third.
SiteAB == <<"h", ":", "/", "/", "a", "/", "b">>
SiteA_B == <<"h", ":", "/", "/", "a", "_", "b">>
SiteC == <<"h", ":", "/", "/", "c">>
Sites == {SiteAB, SiteA_B, SiteC}

\* cookies_path of scrape_page (line 194).
CookiesPath(site_url) ==
    <<"c", "o", "o", "k", "i", "e", "s", "_">>
        \o Replace(Replace(site_url, SchemeSep, <<"_">>), <<"/">>, <<"_">>)
        \o <<".", "t", "x", "t">>

Paths == {CookiesPath(s) : s \in Sites}

CookieNames == {"c1", "c2"}
CookieSets == SUBSET CookieNames

\* A cookie file of the engine: absent, or the text str(cookies).
NoFile == [exists |-> FALSE, literal |-> {}]
Str(cookies) == [exists |-> TRUE, literal |-> cookies]
Eval(text) == text.literal

\* _load_cookies: the cookies the context holds afterwards.
LoadCookies(files, cookies_path) ==
    IF files[cookies_path].exists THEN Eval(files[cookies_path]) ELSE {}

\* _save_cookies: the files afterwards.
SaveCookies(files, cookies_path, cookies) ==
    [files EXCEPT ![cookies_path] = Str(cookies)]

\* History: the set last persisted for a target or a domain.
NotSaved == [saved |-> FALSE, cookies |-> {}]
Saved(cookies) == [saved |-> TRUE, cookies |-> cookies]

\* CookieManager keeps one JSON file: absent, not JSON, a JSON value that is
\* not an object, or an object from domain to cookie list.
Domains == {"a.com", "b.com"}
NoEntry == [present |-> FALSE, cookies |-> {}]
Entry(cookies) == [present |-> TRUE, cookies |-> cookies]
EmptyDict == [d \in Domains |-> NoEntry]
JsonFile(kind, data) == [kind |-> kind, data |-> data]
Dumps(all_cookies) == JsonFile("dict", all_cookies)

\* CookieManager.load_cookies (lines 33-53): the list it returns.
CmLoadCookies(file, domain) ==
    IF file.kind = "dict" /\ file.data[domain].present
    THEN file.data[domain].cookies
    ELSE {}

\* CookieManager.save_cookies (lines 55-83): the file afterwards.
CmSaveCookies(file, domain, cookies) ==
    LET all_cookies == IF file.kind = "dict" THEN file.data ELSE EmptyDict
    IN  Dumps([all_cookies EXCEPT ![domain] = Entry(cookies)])

NoLoad == [op |-> "none", cookies |-> {}]

CkQuiet ==
    /\ cookie_files = [path \in Paths |-> NoFile]
    /\ ck_saved = [s \in Sites |-> NotSaved]
    /\ cm_file = JsonFile("absent", EmptyDict)
    /\ cm_saved = [d \in Domains |-> NotSaved]
    /\ ck_loaded = NoLoad

CkInit ==
    /\ cookie_files = [path \in Paths |-> NoFile]
    /\ ck_saved = [s \in Sites |-> NotSaved]
    /\ \E kind \in {"absent", "garbage", "list"} : cm_file = JsonFile(kind, EmptyDict)
    /\ cm_saved = [d \in Domains |-> NotSaved]
    /\ ck_loaded = NoLoad

\* _save_cookies of the engine, for the context of a scrape of site_url.
EngineSave(site_url, cookies) ==
    /\ cookie_files' = SaveCookies(cookie_files, CookiesPath(site_url), cookies)
    /\ ck_saved' = [ck_saved EXCEPT ![site_url] = Saved(cookies)]
    /\ UNCHANGED <<cm_file, cm_saved, ck_loaded>>

\* _load_cookies of the engine.
EngineLoad(site_url) ==
    /\ ck_loaded' = [op |-> "engine", cookies |-> LoadCookies(cookie_files, CookiesPath(site_url))]
    /\ UNCHANGED <<cookie_files, ck_saved, cm_file, cm_saved>>

\* CookieManager.save_cookies.
CmSave(domain, cookies) ==
    /\ cm_file' = CmSaveCookies(cm_file, domain, cookies)
    /\ cm_saved' = [cm_saved EXCEPT ![domain] = Saved(cookies)]
    /\ UNCHANGED <<cookie_files, ck_saved, ck_loaded>>

\* CookieManager.load_cookies.
CmLoad(domain) ==
    /\ ck_loaded' = [op |-> "manager", cookies |-> CmLoadCookies(cm_file, domain)]
    /\ UNCHANGED <<cookie_files, ck_saved, cm_file, cm_saved>>

CkNext ==
    \/ \E s \in Sites, cookies \in CookieSets : EngineSave(s, cookies) /\ UNCHANGED notCk
    \/ \E s \in Sites : EngineLoad(s) /\ UNCHANGED notCk
    \/ \E d \in Domains, cookies \in CookieSets : CmSave(d, cookies) /\ UNCHANGED notCk
    \/ \E d \in Domains : CmLoad(d) /\ UNCHANGED notCk

\* ========================================================================
\* Scraping engine (scraper_engine.py)
\* ========================================================================

Digits == {"0", "1", "2", "3", "4", "5", "6", "7", "8", "9"}
Whitespace == {" "}

RECURSIVE Filter(_, _)
Filter(s, keep) ==
    IF s = <<>> THEN <<>>
    ELSE IF Head(s) \in keep THEN <<Head(s)>> \o Filter(Tail(s), keep)
    ELSE Filter(Tail(s), keep)

\* The text handed to float() on line 127.
PriceText(price_raw) ==
    Replace(Filter(price_raw, Digits \cup {".", ","}), <<",">>, <<".">>)

\* float() accepts the text (made of digits and points only): at least one
\* digit, at most one point.
ParsesAsFloat(text) ==
    /\ \E i \in 1..Len(text) : text[i] \in Digits
    /\ Cardinality({i \in 1..Len(text) : text[i] = "."}) <= 1

\* str.strip().
RECURSIVE StripLeft(_)
StripLeft(s) ==
    IF s # <<>> /\ Head(s) \in Whitespace THEN StripLeft(Tail(s)) ELSE s
RECURSIVE StripRight(_)
StripRight(s) ==
    IF s # <<>> /\ s[Len(s)] \in Whitespace THEN StripRight(SubSeq(s, 1, Len(s) - 1)) ELSE s
Strip(s) == StripRight(StripLeft(s))

\* What is_visible() and bounding_box() report of an element.
Shown == [visible |-> TRUE, box |-> "normal"]
Hidden == [visible |-> FALSE, box |-> "none"]
ZeroWidth == [visible |-> TRUE, box |-> "zero_width"]
ZeroHeight == [visible |-> TRUE, box |-> "zero_height"]
ElementStates == {Shown, Hidden, ZeroWidth, ZeroHeight}

\* Mutation of Honeypot: the bounding box is not looked at.
HoneypotVisibleOnly(el) == ~el.visible

\* The condition of line 137.
Honeypot(el) ==
    ~el.visible \/ (el.box # "none" /\ el.box \in {"zero_width", "zero_height"})

PriceRaws == {<<"$", "1", ",", "5">>, <<"N", "/", "A">>, <<"1", ".", "2", ",", "5">>}
TitleText == <<" ", "T", " ">>
ImageSrc == <<"i">>

\* What an attempt meets: the navigation, whether the selectors match, the
\* price text and the state of the three elements.  At most one element is
\* out of the ordinary, or all three are hidden.
Page(nav, found, price_raw, price_el, title_el, image_el) ==
    [nav |-> nav, found |-> found, price_raw |-> price_raw,
     price_el |-> price_el, title_el |-> title_el, image_el |-> image_el]
NoPage == Page("none", FALSE, <<>>, Shown, Shown, Shown)
PageInputs ==
    {Page(nav, FALSE, <<>>, Shown, Shown, Shown) : nav \in {"timeout", "error", "ok"}}
    \cup {Page("ok", TRUE, raw, Shown, Shown, Shown) : raw \in PriceRaws}
    \cup {Page("ok", TRUE, <<"$", "1", ",", "5">>, el, Shown, Shown) : el \in ElementStates}
    \cup {Page("ok", TRUE, <<"$", "1", ",", "5">>, Shown, el, Shown) : el \in ElementStates}
    \cup {Page("ok", TRUE, <<"$", "1", ",", "5">>, Shown, Shown, el) : el \in ElementStates}
    \cup {Page("ok", TRUE, <<"$", "1", ",", "5">>, Hidden, Hidden, Hidden)}

Extracted(kind, price, title, image_url) ==
    [kind |-> kind, price |-> price, title |-> title, image_url |-> image_url]
Raised(exc) == Extracted(exc, <<>>, <<>>, <<>>)

\* _extract_data (lines 119-143).
ExtractData(page) ==
    IF ~page.found
    THEN Raised("SelectorChangedException")
    ELSE IF ~ParsesAsFloat(PriceText(page.price_raw))
    THEN Raised("DataMissingException")
    ELSE IF Honeypot(page.title_el) \/ Honeypot(page.image_el)
    THEN Raised("DataMissingException")
    ELSE Extracted("data", PriceText(page.price_raw), Strip(TitleText), ImageSrc)

\* The try block of an attempt (lines 195-238).
AttemptResult(page) ==
    IF page.nav = "timeout" THEN Raised("PlaywrightTimeoutError")
    ELSE IF page.nav = "error" THEN Raised("Exception")
    ELSE ExtractData(page)

\* Mutation of BackoffLow: the lower bound of the pause does not grow.
BackoffLowFlat(attempt) == 2 ^ 0

\* The bounds of the backoff pause of line 245.
BackoffLow(attempt) == 2 ^ attempt
BackoffHigh(attempt) == 2 ^ (attempt + 1)

\* random.uniform(a, b) = a + (b - a) * random(): a value of the closed
\* interval (b itself is reached through rounding); the two end points stand
\* for it.
RandomUniform(a, b) == {a, b}

\* The cookie a target sets in the browsing context.
SiteCookie(site_url) == IF site_url = SiteAB THEN "c1" ELSE "c2"

NoCall == [pc |-> "idle", site_url |-> SiteC, max_retries |-> 0, attempt |-> 0]
NoScrape == [kind |-> "none", data |-> Raised("none"), proxy |-> NoUrl,
             scraped_at |-> "none"]
NoReport == [op |-> "none", url |-> NoUrl]
NoHandOut == [url |-> NoUrl, enabled |-> TRUE, sticky |-> FALSE]

\* History: the address _get_sticky_proxy returned, whether the records it
\* belongs to were enabled at that moment, and whether it came from the
\* sticky assignment.
HandOut(prx, creds, proxy_url, sticky) ==
    [url |-> proxy_url,
     enabled |-> \A i \in Owners(prx, creds, proxy_url) : prx[i].enabled,
     sticky |-> sticky]
NoScrapeHist == [slept |-> <<>>, page |-> NoPage, last_exc |-> "none",
                 attempts |-> 0, raised |-> 0, proxy |-> NoUrl,
                 reported |-> NoReport, handed |-> NoHandOut, others |-> 0]

\* Mutation of SuccessResult: the dictionary lacks its provenance entries.
SuccessResultBare(data, proxy_url) ==
    [kind |-> "success", data |-> data, proxy |-> NoUrl, scraped_at |-> "none"]

\* The dictionary returned at lines 233-238: the extracted fields, then
\* "scraped_at" (datetime.utcnow() at the return) and "proxy".
SuccessResult(data, proxy_url) ==
    [kind |-> "success", data |-> data, proxy |-> proxy_url, scraped_at |-> "utcnow"]

ScQuiet ==
    /\ scrape = NoCall
    /\ sticky_sessions = [s \in Sites |-> NoUrl]
    /\ sc_out = NoScrape
    /\ sc_hist = NoScrapeHist
    /\ sc_calls = 0

\* scrape_page is called (lines 184-188).
ScrapeCall(site_url, max_retries) ==
    /\ scrape.pc = "idle"
    /\ sc_calls < MaxScrapes
    /\ sc_calls' = sc_calls + 1
    /\ scrape' = [pc |-> "loop", site_url |-> site_url, max_retries |-> max_retries,
                  attempt |-> 0]
    /\ sc_out' = NoScrape
    /\ sc_hist' = NoScrapeHist
    /\ UNCHANGED <<sticky_sessions, pxVars, cookie_files, ck_saved>>

\* One pass of the loop (lines 189-246): get the proxy, restore the cookies,
\* run the attempt; then either persist, report success and return, or
\* report the failure, clear the sticky assignment, pause and go round.
ScrapeAttempt(page) ==
    /\ scrape.pc = "loop"
    /\ scrape.attempt < scrape.max_retries
    /\ LET site_url == scrape.site_url
           sticky == sticky_sessions[site_url]
           g == IF sticky # NoUrl
                THEN [proxies |-> proxies, index |-> current_proxy_index,
                      ret |-> [idx |-> 0, url |-> sticky, skipped |-> 0]]
                ELSE GetProxyFrom(PROXY_ENABLED, PROXY_CREDS, proxies, current_proxy_index)
           proxy_url == g.ret.url
           cookies_path == CookiesPath(site_url)
           cookies == LoadCookies(cookie_files, cookies_path) \cup {SiteCookie(site_url)}
           data == AttemptResult(page)
       IN  /\ current_proxy_index' = g.index
           /\ px_ret' = IF sticky # NoUrl THEN px_ret
                        ELSE [idx |-> g.ret.idx, url |-> g.ret.url,
                              enabled |-> g.ret.idx = 0 \/ proxies[g.ret.idx].enabled,
                              skipped |-> g.ret.skipped]
           /\ IF data.kind = "data"
              THEN /\ cookie_files' = SaveCookies(cookie_files, cookies_path, cookies)
                   /\ ck_saved' = [ck_saved EXCEPT ![site_url] = Saved(cookies)]
                   /\ proxies' = MarkSuccessOn(g.proxies, proxy_url)
                   /\ px_own' = OwnAfterSuccess(px_own, proxies, PROXY_CREDS, proxy_url)
                   /\ sticky_sessions' = [sticky_sessions EXCEPT ![site_url] = proxy_url]
                   /\ sc_out' = SuccessResult(data, proxy_url)
                   /\ sc_hist' = [sc_hist EXCEPT !.page = page, !.last_exc = "none",
                                                !.attempts = @ + 1,
                                                !.proxy = proxy_url,
                                                !.reported = [op |-> "mark_success",
                                                              url |-> proxy_url],
                                                !.handed = HandOut(g.proxies, PROXY_CREDS,
                                                                   proxy_url, sticky # NoUrl)]
                   /\ scrape' = [scrape EXCEPT !.pc = "idle"]
              ELSE /\ proxies' = MarkFailedOn(g.proxies, proxy_url)
                   /\ px_own' = OwnAfterFailed(px_own, proxies, PROXY_CREDS, proxy_url)
                   /\ sticky_sessions' = [sticky_sessions EXCEPT ![site_url] = NoUrl]
                   /\ \E pause \in RandomUniform(BackoffLow(scrape.attempt),
                                                  BackoffHigh(scrape.attempt)) :
                          sc_hist' = [sc_hist EXCEPT !.page = page, !.last_exc = data.kind,
                                                     !.attempts = @ + 1,
                                                     !.slept = Append(@, pause),
                                                     !.proxy = proxy_url,
                                                     !.reported = [op |-> "mark_failed",
                                                                   url |-> proxy_url],
                                                     !.handed = HandOut(g.proxies, PROXY_CREDS,
                                                                        proxy_url, sticky # NoUrl)]
                   /\ scrape' = [scrape EXCEPT !.attempt = @ + 1]
                   /\ UNCHANGED <<cookie_files, ck_saved, sc_out>>
    /\ UNCHANGED <<PROXY_ENABLED, PROXY_CREDS, sc_calls, hcVars>>

\* The loop is left without a result (lines 247-248).
ScrapeRaise ==
    /\ scrape.pc = "loop"
    /\ scrape.attempt >= scrape.max_retries
    /\ sc_out' = [NoScrape EXCEPT !.kind = "ScraperEngineException"]
    /\ sc_hist' = [sc_hist EXCEPT !.raised = @ + 1]
    /\ scrape' = [scrape EXCEPT !.pc = "idle"]
    /\ UNCHANGED <<sticky_sessions, sc_calls, pxVars, cookie_files, ck_saved>>

ScNext ==
    \/ \E s \in Sites, n \in 0..MaxRetries : ScrapeCall(s, n) /\ UNCHANGED notScrape
    \/ \E page \in PageInputs : ScrapeAttempt(page) /\ UNCHANGED notScrape
    \/ ScrapeRaise /\ UNCHANGED notScrape

\* While this scrape awaits (the pause of line 245, the browser), the
\* scrape_page coroutine of another target reaches line 191 and, having no
\* sticky assignment, takes a proxy from the shared proxy_manager (line 172).
OtherScrapeGetsProxy ==
    /\ scrape.pc = "loop"
    /\ get_proxy

\* _get_sticky_proxy (lines 169-176) as a further scrape_page call for
\* site_url makes it at line 191, after the call modelled above has returned.
get_sticky_proxy(site_url) ==
    /\ scrape.pc = "idle"
    /\ sc_calls >= 1
    /\ sc_calls <= MaxScrapes
    /\ sc_calls' = sc_calls + 1
    /\ LET sticky == sticky_sessions[site_url]
           g == GetProxyFrom(PROXY_ENABLED, PROXY_CREDS, proxies, current_proxy_index)
       IN  IF sticky # NoUrl
           THEN /\ sc_hist' = [sc_hist EXCEPT !.handed =
                                  HandOut(proxies, PROXY_CREDS, sticky, TRUE)]
                /\ UNCHANGED <<sticky_sessions, proxies, current_proxy_index, px_ret>>
           ELSE /\ proxies' = g.proxies
                /\ current_proxy_index' = g.index
                /\ px_ret' = [idx |-> g.ret.idx, url |-> g.ret.url,
                              enabled |-> g.ret.idx = 0 \/ proxies[g.ret.idx].enabled,
                              skipped |-> g.ret.skipped]
                /\ sticky_sessions' = [sticky_sessions EXCEPT ![site_url] = g.ret.url]
                /\ sc_hist' = [sc_hist EXCEPT !.handed =
                                  HandOut(g.proxies, PROXY_CREDS, g.ret.url, FALSE)]
    /\ UNCHANGED <<PROXY_ENABLED, PROXY_CREDS, px_own, hcVars, scrape, sc_out,
                   cookie_files, ck_saved>>

\* The scrape of another target, or a health probe, reports a failure
\* between two scrape_page calls for the target.
OtherMarkFailed(proxy_url) ==
    /\ proxy_url # NoUrl
    /\ scrape.pc = "idle"
    /\ sc_calls >= 1
    /\ sc_calls <= MaxScrapes
    /\ sc_hist.others < MaxOtherReports
    /\ mark_failed(proxy_url)
    /\ sc_hist' = [sc_hist EXCEPT !.others = @ + 1]
    /\ UNCHANGED <<sticky_sessions, scrape, sc_out, sc_calls, cookie_files, ck_saved>>

\* scrape_page and the calls that follow it, next to failure reports from
\* other scrapes and from health checks.
ScStickyNext ==
    \/ \E s \in Sites, n \in 0..MaxRetries : ScrapeCall(s, n) /\ UNCHANGED notScrape
    \/ \E page \in PageInputs : ScrapeAttempt(page) /\ UNCHANGED notScrape
    \/ ScrapeRaise /\ UNCHANGED notScrape
    \/ \E s \in Sites : get_sticky_proxy(s) /\ UNCHANGED notScrape
    \/ \E proxy_url \in ReportedUrls : OtherMarkFailed(proxy_url) /\ UNCHANGED notScrape

\* scrape_page next to the scrapes of other targets.
ScSharedNext ==
    \/ \E s \in Sites, n \in 0..MaxRetries : ScrapeCall(s, n) /\ UNCHANGED notScrape
    \/ \E page \in PageInputs : ScrapeAttempt(page) /\ UNCHANGED notScrape
    \/ ScrapeRaise /\ UNCHANGED notScrape
    \/ OtherScrapeGetsProxy /\ UNCHANGED notPx

\* ------------------------------------------------------------------------
\* The backoff of the two retry loops
\* ------------------------------------------------------------------------

\* The cap of the delay of BaseScraper._make_request (line 190).
BackoffCap == 10

\* The delay of line 190: min(2 ** attempt + random.uniform(0, 1), 10).
RequestDelays(attempt) ==
    {Min({2 ^ attempt + jitter, BackoffCap}) : jitter \in RandomUniform(0, 1)}

\* The pause of scrape_page, line 245.
EnginePauses(attempt) == RandomUniform(BackoffLow(attempt), BackoffHigh(attempt))

NoLoop == [who |-> "none", max_retries |-> 0, attempt |-> 0]

BkQuiet ==
    /\ bk_loop = NoLoop
    /\ bk_slept = <<>>

\* scrape_page starts its loop (scraper_engine.py, lines 186-189).
BkScrapePage(max_retries) ==
    /\ bk_loop = NoLoop
    /\ bk_loop' = [who |-> "scrape_page", max_retries |-> max_retries, attempt |-> 0]
    /\ bk_slept' = <<>>

\* An attempt of scrape_page fails (lines 239-246).
BkScrapeFails ==
    /\ bk_loop.who = "scrape_page"
    /\ bk_loop.attempt < bk_loop.max_retries
    /\ \E pause \in EnginePauses(bk_loop.attempt) :
          bk_slept' = Append(bk_slept, [k |-> bk_loop.attempt, delay |-> pause])
    /\ bk_loop' = [bk_loop EXCEPT !.attempt = @ + 1]

\* scrape_page leaves its loop and raises (lines 247-248).
BkScrapeRaises ==
    /\ bk_loop.who = "scrape_page"
    /\ bk_loop.attempt >= bk_loop.max_retries
    /\ bk_loop' = NoLoop
    /\ UNCHANGED bk_slept

\* _make_request starts its loop (base_scraper.py, lines 131-134).
BkMakeRequest(max_retries) ==
    /\ bk_loop = NoLoop
    /\ bk_loop' = [who |-> "_make_request", max_retries |-> max_retries, attempt |-> 0]
    /\ bk_slept' = <<>>

\* A request of _make_request fails with a client error or a timeout
\* (lines 135, 184-193): the last attempt returns None, an earlier one sleeps.
BkRequestFails ==
    /\ bk_loop.who = "_make_request"
    /\ LET max_attempts == bk_loop.max_retries + 1
           attempt == bk_loop.attempt + 1
       IN  /\ bk_loop.attempt < max_attempts
           /\ IF attempt = max_attempts
              THEN /\ bk_loop' = NoLoop
                   /\ UNCHANGED bk_slept
              ELSE /\ \E delay \in RequestDelays(attempt) :
                        bk_slept' = Append(bk_slept, [k |-> attempt, delay |-> delay])
                   /\ bk_loop' = [bk_loop EXCEPT !.attempt = attempt]

BkNext ==
    \/ \E n \in 0..MaxBackoffRetries : BkScrapePage(n) /\ UNCHANGED notBk
    \/ BkScrapeFails /\ UNCHANGED notBk
    \/ BkScrapeRaises /\ UNCHANGED notBk
    \/ \E n \in 0..MaxBackoffRetries : BkMakeRequest(n) /\ UNCHANGED notBk
    \/ BkRequestFails /\ UNCHANGED notBk

\* ------------------------------------------------------------------------
\* The daily-quota limiter of the eBay service (services/ebay_service.py)
\* ------------------------------------------------------------------------

\* EBayService.__init__, line 151: period=86400.
QuotaPeriod == 86400

\* settings.EBAY_MAX_CALLS_PER_DAY is read from the environment
\* (core/config.py, line 49); small settings bring the limit within reach.
MaxCallsSettings == {1, 2}

\* The coroutines that call wait_if_needed on the one limiter of the process.
Callers == {1, 2}

\* time.time() when the limiter is built: an instant late enough that
\* time.time() - 0 is no less than any min_interval.
ClockStart == 2 * QuotaPeriod

\* Line 108: min_interval = 1.0 / (max_calls / (period * 0.9)).
MinInterval(max_calls) == (QuotaPeriod * 9) \div (10 * max_calls)

\* redis.get of a key with an expiry instant.
QGet(value, until, t) ==
    IF value # NoVal /\ (until = NoVal \/ t < until) THEN value ELSE NoVal

\* _get_usage (lines 34-70) at instant t: what it returns and what it
\* leaves in the local counter and in the store.
GetUsage(redis_available, store, local, t) ==
    IF ~redis_available
    THEN LET l == IF t > local.reset
                  THEN [usage |-> 0, reset |-> t + QuotaPeriod]
                  ELSE local
         IN  [usage |-> l.usage, reset_time |-> l.reset, local |-> l, store |-> store]
    ELSE LET u == QGet(store.usage, store.usage_exp, t)
             r == QGet(store.reset, store.reset_exp, t)
             usage == IF u = NoVal THEN 0 ELSE u
             reset_time == IF r = NoVal THEN t + QuotaPeriod ELSE r
         IN  IF t > reset_time
             THEN [usage |-> 0, reset_time |-> t + QuotaPeriod, local |-> local,
                   store |-> [store EXCEPT !.usage = 0,
                                           !.usage_exp = t + QuotaPeriod,
                                           !.reset = t + QuotaPeriod,
                                           !.reset_exp = t + QuotaPeriod]]
             ELSE [usage |-> usage, reset_time |-> reset_time, local |-> local,
                   store |-> store]

\* _increment_usage (lines 73-90) at instant t: INCR, and EXPIRE when the
\* key has no expiry.
IncrementUsage(redis_available, store, local, t) ==
    IF ~redis_available
    THEN [store |-> store, local |-> [local EXCEPT !.usage = @ + 1]]
    ELSE LET u == QGet(store.usage, store.usage_exp, t)
         IN  [store |-> IF u = NoVal
                        THEN [store EXCEPT !.usage = 1, !.usage_exp = t + QuotaPeriod]
                        ELSE [store EXCEPT !.usage = u + 1,
                                           !.usage_exp = IF @ = NoVal
                                                         THEN t + QuotaPeriod ELSE @],
              local |-> local]

\* _get_last_request_time (lines 120-130).
LastRequestTime(redis_available, store) ==
    IF ~redis_available \/ store.last = NoVal THEN 0 ELSE store.last

\* The usage the limiter counts at instant t.
Usage(redis_available, store, local, t) ==
    IF redis_available THEN (IF QGet(store.usage, store.usage_exp, t) = NoVal THEN 0
                   ELSE QGet(store.usage, store.usage_exp, t))
             ELSE local.usage

NoStore == [usage |-> NoVal, usage_exp |-> NoVal, reset |-> NoVal,
            reset_exp |-> NoVal, last |-> NoVal]
NoWait == [pc |-> "idle", wake |-> NoVal, now |-> NoVal, slept |-> FALSE,
           observed |-> NoVal]
NoAdmission == [caller |-> 0, slept |-> FALSE, observed |-> NoVal]

\* The limiter is built (lines 18-32) with a store client or without one.
QInit ==
    /\ q_now = ClockStart
    /\ \E client \in BOOLEAN, max_calls \in MaxCallsSettings :
          q_cfg = [redis_available |-> client, max_calls |-> max_calls]
    /\ q_store = NoStore
    /\ q_local = [usage |-> 0, reset |-> ClockStart + QuotaPeriod]
    /\ q_call = [c \in Callers |-> NoWait]
    /\ q_hist = [started |-> 0, idle |-> 0, admitted |-> NoAdmission]

QQuiet ==
    /\ q_now = ClockStart
    /\ q_cfg = [redis_available |-> FALSE, max_calls |-> 1]
    /\ q_store = NoStore
    /\ q_local = [usage |-> 0, reset |-> ClockStart + QuotaPeriod]
    /\ q_call = [c \in Callers |-> NoWait]
    /\ q_hist = [started |-> 0, idle |-> 0, admitted |-> NoAdmission]

\* Lines 115-118: the last request time is stored and the usage counted;
\* wait_if_needed returns.
QAdmit(c, store, local, slept, observed, h) ==
    LET stamped == IF q_cfg.redis_available THEN [store EXCEPT !.last = q_now]
                                            ELSE store
        i == IncrementUsage(q_cfg.redis_available, stamped, local, q_now)
    IN  /\ q_store' = i.store
        /\ q_local' = i.local
        /\ q_call' = [q_call EXCEPT ![c] = NoWait]
        /\ q_hist' = [h EXCEPT !.admitted = [caller |-> c, slept |-> slept,
                                                observed |-> observed]]

\* Lines 107-118, with t_now the reading `now` of line 95: sleep for what is left
\* of min_interval, or go on at once.
QInterval(c, t_now, store, local, slept, observed, h) ==
    LET time_since_last == t_now - LastRequestTime(q_cfg.redis_available, store)
        min_interval == MinInterval(q_cfg.max_calls)
    IN  IF time_since_last < min_interval
        THEN /\ q_call' = [q_call EXCEPT ![c] =
                              [pc |-> "interval_sleep",
                               wake |-> q_now + (min_interval - time_since_last),
                               now |-> t_now, slept |-> slept, observed |-> observed]]
             /\ q_store' = store
             /\ q_local' = local
             /\ q_hist' = h
        ELSE QAdmit(c, store, local, slept, observed, h)

\* wait_if_needed is called (lines 92-102): up to its first sleep, or to
\* its return.
QCall(c) ==
    /\ q_call[c].pc = "idle"
    /\ q_hist.started < MaxQuotaCalls
    /\ LET g == GetUsage(q_cfg.redis_available, q_store, q_local, q_now)
           t_now == q_now
           sleep_time == g.reset_time - t_now
       IN  IF g.usage >= q_cfg.max_calls /\ sleep_time > 0
           THEN /\ q_call' = [q_call EXCEPT ![c] =
                                 [pc |-> "reset_sleep", wake |-> q_now + sleep_time,
                                  now |-> t_now, slept |-> TRUE, observed |-> NoVal]]
                /\ q_store' = g.store
                /\ q_local' = g.local
                /\ q_hist' = [q_hist EXCEPT !.started = @ + 1]
           ELSE QInterval(c, t_now, g.store, g.local, FALSE, NoVal,
                          [q_hist EXCEPT !.started = @ + 1])
    /\ UNCHANGED <<q_now, q_cfg>>
\* Lines 102-104 and on: the sleep until the reset is over, _get_usage is
\* called and its result dropped; the call goes on with the `now` of line 95.
QWakeReset(c) ==
    /\ q_call[c].pc = "reset_sleep"
    /\ q_now > q_call[c].wake
    /\ LET g == GetUsage(q_cfg.redis_available, q_store, q_local, q_now)
       IN  QInterval(c, q_call[c].now, g.store, g.local, TRUE, g.usage, q_hist)
    /\ UNCHANGED <<q_now, q_cfg>>

\* Lines 112-118: the sleep of line 112 is over.
QWakeInterval(c) ==
    /\ q_call[c].pc = "interval_sleep"
    /\ q_now > q_call[c].wake
    /\ QAdmit(c, q_store, q_local, q_call[c].slept, q_call[c].observed, q_hist)
    /\ UNCHANGED <<q_now, q_cfg>>

\* Sleeps that are not over yet.
Sleepers == {c \in Callers : q_call[c].pc # "idle" /\ q_call[c].wake >= q_now}

\* Time passes: until just after the earliest sleep ends (timers fire late,
\* never early), or, with no coroutine to wake, for a min_interval or for
\* more than a period.
QElapse ==
    /\ \A c \in Callers : q_call[c].pc = "idle" \/ q_call[c].wake >= q_now
    /\ IF Sleepers # {}
         THEN /\ q_now' = Min({q_call[c].wake : c \in Sleepers}) + 1
              /\ UNCHANGED q_hist
         ELSE /\ q_hist.idle < MaxTicks
              /\ \E d \in {MinInterval(q_cfg.max_calls), QuotaPeriod + 1} : q_now' = q_now + d
              /\ q_hist' = [q_hist EXCEPT !.idle = @ + 1]
    /\ UNCHANGED <<q_cfg, q_store, q_local, q_call>>

QNext ==
    \/ \E c \in Callers : QCall(c) /\ UNCHANGED notQ
    \/ \E c \in Callers : QWakeReset(c) /\ UNCHANGED notQ
    \/ \E c \in Callers : QWakeInterval(c) /\ UNCHANGED notQ
    \/ QElapse /\ UNCHANGED notQ

\* ------------------------------------------------------------------------
\* The steps of one scrape attempt (scraper_engine.py, lines 189-246)
\* ------------------------------------------------------------------------

NoRun == [pc |-> "idle", attempt |-> 0, max_retries |-> 0]

AtQuiet ==
    /\ at_run = NoRun
    /\ at_steps = <<>>

\* Mutation of Then: what the step raised is swallowed.
ThenAlways(outcome, next) == next

\* Every step runs inside the try of line 195: when it raises, control goes
\* to the handler of line 239; otherwise to the next statement.
Then(outcome, next) == IF outcome = "ok" THEN next ELSE "raised"

\* The step at position at is taken with the given outcome.
AtStep(at, step, outcome, next) ==
    /\ at_run.pc = at
    /\ at_steps' = Append(at_steps, [step |-> step, outcome |-> outcome])
    /\ at_run' = [at_run EXCEPT !.pc = Then(outcome, next)]

\* scrape_page is called (lines 184-188).
AtCall(max_retries) ==
    /\ at_run = NoRun
    /\ at_run' = [pc |-> "loop", attempt |-> 0, max_retries |-> max_retries]
    /\ at_steps' = <<>>

\* Lines 189-191: the loop is entered and _get_sticky_proxy called.
AtGetProxy ==
    /\ at_run.pc = "loop"
    /\ at_run.attempt < at_run.max_retries
    /\ at_steps' = <<[step |-> "get_proxy", outcome |-> "ok"]>>
    /\ at_run' = [at_run EXCEPT !.pc = "load_cookies"]

\* Lines 196-209: browser and context are opened and _load_cookies called
\* (it swallows what add_cookies raises).
AtLoadCookies == AtStep("load_cookies", "load_cookies", "ok", "goto")

\* Lines 213-217: page.goto; PlaywrightTimeoutError is logged and re-raised.
AtGoto(outcome) == AtStep("goto", "goto", outcome, "simulate")

\* Line 218: _simulate_human.
AtSimulateHuman == AtStep("simulate", "simulate_human", "ok", "detect")

\* Lines 219-220: _detect_captcha.
AtDetectCaptcha(found) ==
    AtStep("detect", "detect_captcha", "ok", IF found THEN "handle" ELSE "extract")

\* Line 221: _handle_captcha (solve_captcha may raise).
AtHandleCaptcha(outcome) == AtStep("handle", "handle_captcha", outcome, "reload")

\* Line 222: page.reload (may time out).
AtReload(outcome) == AtStep("reload", "reload", outcome, "simulate_again")

\* Line 223: _simulate_human after the reload.
AtSimulateAgain == AtStep("simulate_again", "simulate_human", "ok", "extract")

\* Lines 224-225: _extract_data and page.content.
AtExtractData(outcome) == AtStep("extract", "extract_data", outcome, "save")

\* Line 226: _save_cookies (the write may raise).
AtSaveCookies(outcome) == AtStep("save", "save_cookies", outcome, "succeed")

\* Lines 227-238: context and browser are closed, mark_success is called
\* and the result returned.
AtSucceed ==
    /\ at_run.pc = "succeed"
    /\ at_steps' = Append(at_steps, [step |-> "mark_success", outcome |-> "ok"])
    /\ at_run' = NoRun

\* Lines 239-246: the handler reports the failure, clears the sticky
\* assignment, pauses and counts the attempt.
AtFail ==
    /\ at_run.pc = "raised"
    /\ at_steps' = Append(at_steps, [step |-> "mark_failed", outcome |-> "ok"])
    /\ at_run' = [at_run EXCEPT !.pc = "loop", !.attempt = @ + 1]

\* Lines 247-248: the loop is left and the terminal error raised.
AtRaise ==
    /\ at_run.pc = "loop"
    /\ at_run.attempt >= at_run.max_retries
    /\ at_run' = NoRun
    /\ UNCHANGED at_steps

NavOutcomes == {"ok", "PlaywrightTimeoutError", "Exception"}
ExtractOutcomes == {"ok", "SelectorChangedException", "DataMissingException"}

AtNext ==
    \/ \E n \in 0..MaxRetries : AtCall(n) /\ UNCHANGED notAt
    \/ AtGetProxy /\ UNCHANGED notAt
    \/ AtLoadCookies /\ UNCHANGED notAt
    \/ \E o \in NavOutcomes : AtGoto(o) /\ UNCHANGED notAt
    \/ AtSimulateHuman /\ UNCHANGED notAt
    \/ \E found \in BOOLEAN : AtDetectCaptcha(found) /\ UNCHANGED notAt
    \/ \E o \in {"ok", "Exception"} : AtHandleCaptcha(o) /\ UNCHANGED notAt
    \/ \E o \in {"ok", "PlaywrightTimeoutError"} : AtReload(o) /\ UNCHANGED notAt
    \/ AtSimulateAgain /\ UNCHANGED notAt
    \/ \E o \in ExtractOutcomes : AtExtractData(o) /\ UNCHANGED notAt
    \/ \E o \in {"ok", "Exception"} : AtSaveCookies(o) /\ UNCHANGED notAt
    \/ AtSucceed /\ UNCHANGED notAt
    \/ AtFail /\ UNCHANGED notAt
    \/ AtRaise /\ UNCHANGED notAt

\* ========================================================================
\* SessionManager (session_manager.py)
\* ========================================================================

SessionIds == {"s1", "s2"}

\* Line 27: self._cleanup_interval = 3600.
CleanupInterval == 3600

\* The ttl arguments of save_session, and the step of the clock.
Ttls == {CleanupInterval, 2 * CleanupInterval}

NoLoaded == [id |-> "none", at |-> 0, returned |-> NoVal, found |-> FALSE,
             expired_left |-> FALSE]

\* Line 64: datetime.fromisoformat(expires) < datetime.utcnow().
Expired(expires, t_now) == expires # NoVal /\ expires < t_now

\* Lines 53-71: what load_session returns when the id is not cached.
FromDisk(files, id, t_now) ==
    IF files[id] = NoVal \/ Expired(files[id], t_now) THEN NoVal ELSE files[id]

\* load_session as a function of files and cache: the files and cache it
\* leaves and the session it returns (NoVal: None).
LoadSession(files, sessions, id, t_now) ==
    IF sessions[id] # NoVal
    THEN [files |-> files, sessions |-> sessions, ret |-> sessions[id]]
    ELSE IF files[id] = NoVal
    THEN [files |-> files, sessions |-> sessions, ret |-> NoVal]
    ELSE IF Expired(files[id], t_now)
    THEN [files |-> [files EXCEPT ![id] = NoVal],
          sessions |-> [sessions EXCEPT ![id] = NoVal], ret |-> NoVal]
    ELSE [files |-> files, sessions |-> [sessions EXCEPT ![id] = FromDisk(files, id, t_now)],
          ret |-> FromDisk(files, id, t_now)]

\* __init__ (lines 18-28), in a server that has been up for a while.
SsInit ==
    /\ ss_now = CleanupInterval
    /\ ss_files = [id \in SessionIds |-> NoVal]
    /\ ss_sessions = [id \in SessionIds |-> NoVal]
    /\ ss_last_cleanup = 0
    /\ ss_ret = NoLoaded

SsQuiet == SsInit

\* load_session (lines 47-75).
load_session(id) ==
    LET l == LoadSession(ss_files, ss_sessions, id, ss_now)
    IN  /\ ss_files' = l.files
        /\ ss_sessions' = l.sessions
        /\ ss_ret' = [id |-> id, at |-> ss_now, returned |-> l.ret,
                      found |-> ss_files[id] # NoVal \/ ss_sessions[id] # NoVal,
                      expired_left |-> \/ Expired(l.files[id], ss_now)
                                       \/ Expired(l.sessions[id], ss_now)]
        /\ UNCHANGED <<ss_now, ss_last_cleanup>>

\* save_session (lines 77-104).
save_session(id, ttl) ==
    /\ ss_files' = [ss_files EXCEPT ![id] = ss_now + ttl]
    /\ ss_sessions' = [ss_sessions EXCEPT ![id] = ss_now + ttl]
    /\ UNCHANGED <<ss_now, ss_last_cleanup, ss_ret>>

\* delete_session (lines 110-120).
delete_session(id) ==
    /\ ss_files' = [ss_files EXCEPT ![id] = NoVal]
    /\ ss_sessions' = [ss_sessions EXCEPT ![id] = NoVal]
    /\ UNCHANGED <<ss_now, ss_last_cleanup, ss_ret>>

\* cleanup_expired_sessions (lines 148-173): every session file is loaded,
\* and deleted when load_session returns None.
cleanup_expired_sessions(force) ==
    /\ force \/ ss_now - ss_last_cleanup >= CleanupInterval
    /\ ss_last_cleanup' = ss_now
    /\ ss_files' = [id \in SessionIds |->
                       IF ss_files[id] = NoVal THEN NoVal
                       ELSE LoadSession(ss_files, ss_sessions, id, ss_now).files[id]]
    /\ ss_sessions' = [id \in SessionIds |->
                          IF ss_files[id] = NoVal THEN ss_sessions[id]
                          ELSE LoadSession(ss_files, ss_sessions, id, ss_now).sessions[id]]
    /\ UNCHANGED <<ss_now, ss_ret>>

\* The process restarts: a new SessionManager over the same directory.
SsRestart ==
    /\ ss_sessions' = [id \in SessionIds |-> NoVal]
    /\ ss_last_cleanup' = 0
    /\ UNCHANGED <<ss_now, ss_files, ss_ret>>

SsElapse ==
    /\ ss_now < CleanupInterval * (1 + MaxSessionTicks)
    /\ ss_now' = ss_now + CleanupInterval
    /\ UNCHANGED <<ss_files, ss_sessions, ss_last_cleanup, ss_ret>>

SsNext ==
    \/ \E id \in SessionIds : load_session(id) /\ UNCHANGED notSs
    \/ \E id \in SessionIds, ttl \in Ttls : save_session(id, ttl) /\ UNCHANGED notSs
    \/ \E id \in SessionIds : delete_session(id) /\ UNCHANGED notSs
    \/ \E force \in BOOLEAN : cleanup_expired_sessions(force) /\ UNCHANGED notSs
    \/ SsRestart /\ UNCHANGED notSs
    \/ SsElapse /\ UNCHANGED notSs

\* ========================================================================
\* PlaywrightScraper (scrapers/playwright_scraper.py) over CookieManager
\* ========================================================================

\* The entry of a domain in the cookie file.
StoredEntry(file, domain) ==
    IF file.kind = "dict" THEN file.data[domain] ELSE NoEntry

\* __init__ (lines 24-31).
NewScraper(use_cookies) ==
    [page |-> "none", domain |-> "none", use_cookies |-> use_cookies, context |-> {}]

\* The coroutines that call CookieManager.save_cookies.
Savers == {1, 2}

NoFetch == [domain |-> "none", ok |-> FALSE, before |-> NoEntry, closed |-> FALSE]
NoSave == [pc |-> "idle", domain |-> "none", cookies |-> {}, all_cookies |-> EmptyDict]

PwInit ==
    /\ pw_file = JsonFile("absent", EmptyDict)
    /\ \E use_cookies \in BOOLEAN : pw_scraper = NewScraper(use_cookies)
    /\ pw_save = [t \in Savers |-> NoSave]
    /\ pw_hist = NoFetch
    /\ pw_done = [d \in Domains |-> NotSaved]

PwQuiet ==
    /\ pw_file = JsonFile("absent", EmptyDict)
    /\ pw_scraper = NewScraper(FALSE)
    /\ pw_save = [t \in Savers |-> NoSave]
    /\ pw_hist = NoFetch
    /\ pw_done = [d \in Domains |-> NotSaved]

\* How a get_page_content call goes: navigation fails (lines 113-115), the
\* CAPTCHA is not solved (lines 120-124), an exception is raised (line 142),
\* or the page is delivered.
FetchOutcomes == {"ok", "nav_failed", "captcha_unsolved", "exception"}

\* close, lines 67-69: cookies are saved whenever a page and a domain are
\* set, whatever the last fetch returned.
SavesOnClose(scraper) ==
    scraper.page = "open" /\ scraper.use_cookies /\ scraper.domain # "none"

\* _save_cookies (lines 206-213): nothing is written for an empty list.
PwSaveCookies(file, scraper) ==
    IF scraper.context # {}
    THEN CmSaveCookies(file, scraper.domain, scraper.context)
    ELSE file

\* get_page_content (lines 81-149) for a URL of the domain; set_cookies are
\* the cookies the site sets while the page is navigated to.
get_page_content(domain, outcome, set_cookies) ==
    LET started == IF pw_scraper.page = "none"
                   THEN [pw_scraper EXCEPT !.page = "open", !.context = {}]
                   ELSE pw_scraper
        usable == started.page = "open"
        loaded == IF usable /\ started.use_cookies
                  THEN started.context \cup CmLoadCookies(pw_file, domain)
                  ELSE started.context
        after == [started EXCEPT !.domain = domain,
                                 !.context = IF usable THEN loaded \cup set_cookies
                                             ELSE started.context]
        ok == usable /\ outcome = "ok"
    IN  /\ \A t \in Savers : pw_save[t].pc = "idle"
        /\ pw_scraper' = after
        /\ pw_file' = IF ok /\ after.use_cookies THEN PwSaveCookies(pw_file, after)
                      ELSE pw_file
        /\ pw_hist' = [domain |-> domain, ok |-> ok,
                       before |-> StoredEntry(pw_file, domain), closed |-> FALSE]
        /\ UNCHANGED <<pw_save, pw_done>>

\* close (lines 65-79); the page object stays set afterwards, closed.
close ==
    /\ \A t \in Savers : pw_save[t].pc = "idle"
    /\ pw_scraper.page = "open"
    /\ pw_file' = IF SavesOnClose(pw_scraper) THEN PwSaveCookies(pw_file, pw_scraper)
                  ELSE pw_file
    /\ pw_scraper' = [pw_scraper EXCEPT !.page = "closed"]
    /\ pw_hist' = [pw_hist EXCEPT !.closed = TRUE]
    /\ UNCHANGED <<pw_save, pw_done>>

\* Another scraper object is created.
PwNew(use_cookies) ==
    /\ pw_scraper.page = "closed"
    /\ pw_scraper' = NewScraper(use_cookies)
    /\ pw_hist' = NoFetch
    /\ UNCHANGED <<pw_file, pw_save, pw_done>>

PwNext ==
    \/ \E d \in Domains, outcome \in FetchOutcomes, set_cookies \in CookieSets :
           get_page_content(d, outcome, set_cookies) /\ UNCHANGED notPw
    \/ close /\ UNCHANGED notPw
    \/ \E use_cookies \in BOOLEAN : PwNew(use_cookies) /\ UNCHANGED notPw

\* CookieManager.save_cookies (lines 55-83) of concurrent coroutines, one
\* await after another.
SvCall(t, domain, cookies) ==
    /\ pw_save[t].pc = "idle"
    /\ pw_save' = [pw_save EXCEPT ![t] = [pc |-> "read", domain |-> domain,
                                          cookies |-> cookies, all_cookies |-> EmptyDict]]
    /\ UNCHANGED <<pw_file, pw_scraper, pw_hist, pw_done>>

\* Lines 65-76: the file is read and the domain's entry replaced.
SvRead(t) ==
    /\ pw_save[t].pc = "read"
    /\ pw_save' = [pw_save EXCEPT
                     ![t].pc = "write",
                     ![t].all_cookies =
                         [(IF pw_file.kind = "dict" THEN pw_file.data ELSE EmptyDict)
                            EXCEPT ![pw_save[t].domain] = Entry(pw_save[t].cookies)]]
    /\ UNCHANGED <<pw_file, pw_scraper, pw_hist, pw_done>>

\* Lines 79-80: the whole dictionary is written back.
SvWrite(t) ==
    /\ pw_save[t].pc = "write"
    /\ pw_file' = Dumps(pw_save[t].all_cookies)
    /\ pw_done' = [pw_done EXCEPT ![pw_save[t].domain] = Saved(pw_save[t].cookies)]
    /\ pw_save' = [pw_save EXCEPT ![t] = NoSave]
    /\ UNCHANGED <<pw_scraper, pw_hist>>

SvNext ==
    \/ \E t \in Savers, d \in Domains, cookies \in CookieSets :
           SvCall(t, d, cookies) /\ UNCHANGED notPw
    \/ \E t \in Savers : SvRead(t) /\ UNCHANGED notPw
    \/ \E t \in Savers : SvWrite(t) /\ UNCHANGED notPw

\* ========================================================================
\* RateLimiter keys (core/rate_limiter.py)
\* ========================================================================

\* Requests: of an authenticated user, of an anonymous client seen under
\* its socket address, of anonymous clients behind a proxy (the
\* X-Forwarded-For header is what the client or the proxy sent), and of a
\* client without a socket address.
NoText == <<>>
Host == <<"h">>
Requests ==
    {[user |-> <<"5">>, forwarded |-> NoText, host |-> Host],
     [user |-> NoText, forwarded |-> NoText, host |-> Host],
     [user |-> NoText, forwarded |-> <<"x", ",", "p">>, host |-> Host],
     [user |-> NoText, forwarded |-> <<"u", "s", "e", "r", ":", "5">>, host |-> Host],
     [user |-> NoText, forwarded |-> NoText, host |-> NoText]}

\* The key_prefix arguments: the names of two resources.
KeyPrefixes == {<<"a">>, <<"a", ":", "i", "p">>}

Unknown == <<"u", "n", "k", "n", "o", "w", "n">>

\* Python's s.split(',')[0].
SplitFirst(s) ==
    LET i == Find(<<",">>, s)
    IN  IF i = -1 THEN s ELSE SubSeq(s, 1, i)

\* get_client_identifier (lines 24-38).
get_client_identifier(request) ==
    IF request.user # NoText
    THEN <<"u", "s", "e", "r", ":">> \o request.user
    ELSE LET client_ip == IF request.forwarded # NoText
                          THEN SplitFirst(request.forwarded)
                          ELSE IF request.host # NoText THEN request.host ELSE Unknown
         IN  <<"i", "p", ":">> \o client_ip

\* Line 93: key = f"rate_limit:{key_prefix}:{client_id}".
RateLimitKey(key_prefix, client_id) ==
    <<"r", "a", "t", "e", "_", "l", "i", "m", "i", "t", ":">>
        \o key_prefix \o <<":">> \o client_id

ClientIds == {get_client_identifier(r) : r \in Requests}
RateLimitKeys == {RateLimitKey(p, c) : p \in KeyPrefixes, c \in ClientIds}

NoKeyCall == [key_prefix |-> NoText, client_id |-> NoText, key |-> NoText,
              remaining |-> NoVal]

KyInit ==
    /\ ky_store = [k \in RateLimitKeys |-> 0]
    /\ ky_calls = 0
    /\ ky_own = [pair \in KeyPrefixes \X ClientIds |-> 0]
    /\ ky_last = NoKeyCall

KyQuiet == KyInit

\* limit (lines 92-157) with the store answering, each call in a second of
\* its own within one period: the entry is added to the key's window and
\* the remaining count is computed from the window's size.
KyLimit(request, key_prefix) ==
    LET client_id == get_client_identifier(request)
        key == RateLimitKey(key_prefix, client_id)
        request_count == ky_store[key] + 1
    IN  /\ ky_calls < MaxKeyCalls
        /\ ky_calls' = ky_calls + 1
        /\ ky_store' = [ky_store EXCEPT ![key] = request_count]
        /\ ky_own' = [ky_own EXCEPT ![<<key_prefix, client_id>>] = @ + 1]
        /\ ky_last' = [key_prefix |-> key_prefix, client_id |-> client_id, key |-> key,
                       remaining |-> NormalResult(DefaultLimit("public"),
                                                  request_count).remaining]

KyNext ==
    \E request \in Requests, key_prefix \in KeyPrefixes :
        KyLimit(request, key_prefix) /\ UNCHANGED notKy

\* ========================================================================
\* Specifications
\* ========================================================================

\* ========================================================================
\* Browsers and contexts of concurrent scrapes (scraper_engine.py)
\* ========================================================================

\* The try block of an attempt (lines 195-238), one await after another,
\* for scrape_page coroutines that run on one event loop.  What the page
\* holds is left out here; an operation answers or raises.
Tasks == {1, 2}

\* A browser or a context is known by the attempt that opened it.
Res(kind, t, attempt) == [kind |-> kind, task |-> t, attempt |-> attempt]
NoRes == Res("none", 0, 0)

BrIdle == [pc |-> "idle", attempt |-> 0, max_retries |-> 0, browser |-> NoRes,
           context |-> NoRes, exc |-> "none", result |-> "none"]

BrInit ==
    /\ br_task = [t \in Tasks |-> BrIdle]
    /\ br_open = {}
    /\ br_uses = {}
    /\ br_closed = {}

BrQuiet == BrInit

\* Mutation of ExitClosed: leaving the `async with` block closes nothing.
ExitClosesNothing(open, t, attempt) == {}

\* Leaving the block of line 196 stops the Playwright instance the attempt
\* started, and with it every browser (and context) it launched that is
\* still open.
ExitClosed(open, t, attempt) ==
    {r \in open : r.task = t /\ r.attempt = attempt}

\* What ends the operations of lines 207-227: they all answer, the
\* navigation times out, extraction or another call raises, or the coroutine
\* is cancelled while it awaits.
WorkOutcomes == {"ok", "PlaywrightTimeoutError", "Exception", "CancelledError"}

\* The handler of line 239 names Exception; asyncio.CancelledError derives
\* from BaseException.
CaughtByAttempt(exc) == exc # "CancelledError"

\* scrape_page is called (lines 184-188).
BrCall(t, max_retries) ==
    /\ br_task[t].pc = "idle"
    /\ br_task[t].result = "none"
    /\ br_task' = [br_task EXCEPT ![t] = [BrIdle EXCEPT !.pc = "loop",
                                                       !.max_retries = max_retries]]
    /\ UNCHANGED <<br_open, br_uses, br_closed>>

\* Lines 189-196: the loop goes round and the block is entered.
BrEnter(t) ==
    /\ br_task[t].pc = "loop"
    /\ br_task[t].attempt < br_task[t].max_retries
    /\ br_task' = [br_task EXCEPT ![t].pc = "launch", ![t].exc = "none"]
    /\ UNCHANGED <<br_open, br_uses, br_closed>>

\* Line 197: browser = await p.chromium.launch(...).
BrLaunch(t) ==
    /\ br_task[t].pc = "launch"
    /\ \E ok \in BOOLEAN :
         IF ok
           THEN LET b == Res("browser", t, br_task[t].attempt)
                IN /\ br_open' = br_open \cup {b}
                   /\ br_task' = [br_task EXCEPT ![t].browser = b,
                                                 ![t].pc = "new_context"]
           ELSE /\ br_task' = [br_task EXCEPT ![t].exc = "Exception", ![t].pc = "exit"]
                /\ UNCHANGED br_open
    /\ UNCHANGED <<br_uses, br_closed>>

\* Lines 198-205: context = await browser.new_context(...).
BrNewContext(t) ==
    /\ br_task[t].pc = "new_context"
    /\ \E ok \in BOOLEAN :
         IF ok
           THEN LET c == Res("context", t, br_task[t].attempt)
                IN /\ br_open' = br_open \cup {c}
                   /\ br_task' = [br_task EXCEPT ![t].context = c, ![t].pc = "work"]
           ELSE /\ br_task' = [br_task EXCEPT ![t].exc = "Exception", ![t].pc = "exit"]
                /\ UNCHANGED br_open
    /\ UNCHANGED <<br_uses, br_closed>>

\* Lines 207-227: init scripts, cookies, new_page, goto, extraction and
\* _save_cookies, all on the local variable context.
BrWork(t) ==
    /\ br_task[t].pc = "work"
    /\ br_uses' = br_uses \cup {[task |-> t, attempt |-> br_task[t].attempt,
                                  context |-> br_task[t].context]}
    /\ \E o \in WorkOutcomes :
         br_task' = IF o = "ok"
                      THEN [br_task EXCEPT ![t].pc = "close_context"]
                      ELSE [br_task EXCEPT ![t].exc = o, ![t].pc = "exit"]
    /\ UNCHANGED <<br_open, br_closed>>

\* Line 228: await context.close().
BrCloseContext(t) ==
    /\ br_task[t].pc = "close_context"
    /\ \E ok \in BOOLEAN :
         IF ok
           THEN /\ br_open' = br_open \ {br_task[t].context}
                /\ br_closed' = br_closed \cup {[res |-> br_task[t].context, by |-> "close"]}
                /\ br_task' = [br_task EXCEPT ![t].pc = "close_browser"]
           ELSE /\ br_task' = [br_task EXCEPT ![t].exc = "Exception", ![t].pc = "exit"]
                /\ UNCHANGED <<br_open, br_closed>>
    /\ UNCHANGED br_uses

\* Lines 229-238: await browser.close(), then mark_success and the return.
BrCloseBrowser(t) ==
    /\ br_task[t].pc = "close_browser"
    /\ \E ok \in BOOLEAN :
         IF ok
           THEN /\ br_open' = br_open \ {br_task[t].browser}
                /\ br_closed' = br_closed \cup {[res |-> br_task[t].browser, by |-> "close"]}
                /\ br_task' = [br_task EXCEPT ![t].pc = "exit"]
           ELSE /\ br_task' = [br_task EXCEPT ![t].exc = "Exception", ![t].pc = "exit"]
                /\ UNCHANGED <<br_open, br_closed>>
    /\ UNCHANGED br_uses

\* The block of line 196 is left: by the return of line 233, or by an
\* exception, which the handler of lines 239-246 catches (the loop goes on)
\* or which leaves scrape_page.
BrExit(t) ==
    /\ br_task[t].pc = "exit"
    /\ LET gone == ExitClosed(br_open, t, br_task[t].attempt)
           exc == br_task[t].exc
       IN /\ br_open' = br_open \ gone
          /\ br_closed' = br_closed \cup {[res |-> r, by |-> "exit"] : r \in gone}
          /\ br_task' =
               IF exc = "none"
                 THEN [br_task EXCEPT ![t].pc = "idle", ![t].result = "success"]
               ELSE IF CaughtByAttempt(exc)
                 THEN [br_task EXCEPT ![t].pc = "loop", ![t].attempt = @ + 1]
               ELSE [br_task EXCEPT ![t].pc = "idle", ![t].result = exc]
    /\ UNCHANGED br_uses

\* Lines 247-248: the loop is left without a result.
BrRaise(t) ==
    /\ br_task[t].pc = "loop"
    /\ br_task[t].attempt >= br_task[t].max_retries
    /\ br_task' = [br_task EXCEPT ![t].pc = "idle",
                                  ![t].result = "ScraperEngineException"]
    /\ UNCHANGED <<br_open, br_uses, br_closed>>

BrNext ==
    \/ \E t \in Tasks, n \in 0..MaxBrowserRetries : BrCall(t, n) /\ UNCHANGED notBr
    \/ \E t \in Tasks : BrEnter(t) /\ UNCHANGED notBr
    \/ \E t \in Tasks : BrLaunch(t) /\ UNCHANGED notBr
    \/ \E t \in Tasks : BrNewContext(t) /\ UNCHANGED notBr
    \/ \E t \in Tasks : BrWork(t) /\ UNCHANGED notBr
    \/ \E t \in Tasks : BrCloseContext(t) /\ UNCHANGED notBr
    \/ \E t \in Tasks : BrCloseBrowser(t) /\ UNCHANGED notBr
    \/ \E t \in Tasks : BrExit(t) /\ UNCHANGED notBr
    \/ \E t \in Tasks : BrRaise(t) /\ UNCHANGED notBr

\* ========================================================================
\* CaptchaHandler (utils/captcha_handler.py)
\* ========================================================================

\* Lines 30-43.
captcha_indicators ==
    {<<"c", "a", "p", "t", "c", "h", "a">>,
     <<"g", "-", "r", "e", "c", "a", "p", "t", "c", "h", "a">>,
     <<"h", "c", "a", "p", "t", "c", "h", "a">>,
     <<"r", "e", "c", "a", "p", "t", "c", "h", "a">>,
     <<"r", "o", "b", "o", "t">>,
     <<"v", "e", "r", "i", "f", "i", "c", "a", "t", "i", "o", "n">>,
     <<"c", "h", "a", "l", "l", "e", "n", "g", "e">>,
     <<"e", "n", "t", "e", "r", " ", "t", "h", "e", " ", "c", "h", "a", "r", "a", "c", "t", "e", "r", "s", " ", "y", "o", "u", " ", "s", "e", "e">>,
     <<"p", "r", "o", "v", "e", " ", "y", "o", "u", " ", "a", "r", "e", " ", "h", "u", "m", "a", "n">>,
     <<"a", "r", "e", " ", "y", "o", "u", " ", "a", " ", "r", "o", "b", "o", "t">>,
     <<"c", "l", "o", "u", "d", "f", "l", "a", "r", "e">>,
     <<"d", "i", "s", "t", "i", "l", "_", "r", "_", "b", "l", "o", "c", "k">>}

\* str.lower() on the letters the page contents below are written with.
LowerChar(c) ==
    CASE c = "A" -> "a" [] c = "C" -> "c" [] c = "H" -> "h" [] c = "P" -> "p"
      [] c = "R" -> "r" [] c = "T" -> "t"
      [] OTHER -> c

Lower(s) == [i \in 1..Len(s) |-> LowerChar(s[i])]

\* detect_captcha, lines 45-46.
detect_captcha(page_content) ==
    \E indicator \in captcha_indicators : Contains(indicator, Lower(page_content))

\* What page.content() answers.
PageContents ==
    {<<>>,
     <<"o", "k">>,
     <<"p", "r", "i", "c", "e", " ", "9">>,
     <<"r", "o", "b", "o", "t">>,
     <<"R", "o", "b", "o", "t">>,
     <<"n", "o", " ", "C", "A", "P", "T", "C", "H", "A">>,
     <<"r", "o", "b", " ", "o", "t">>,
     <<"C", "l", "o", "u", "d", "f", "l", "a", "r", "e">>,
     <<"c", "h", "a", "l", "l", "e", "n", "g">>}

\* The attributes an instance of CaptchaHandler has: max_attempts (line 18)
\* and the methods defined at lines 20, 48, 96, 103 and 110.
CaptchaHandlerAttributes ==
    {"max_attempts", "detect_captcha", "handle_captcha", "_solve_by_refresh",
     "_solve_with_retry", "_solve_with_delays"}

\* Lines 66-70: the attributes the list of strategies is built from.
strategies == <<"_solve_by_refresh", "_solve_by_navigation", "_solve_by_waiting">>

\* A strategy answers True or False, or raises (caught at line 83).
StrategyResults == {"true", "false", "raise"}

\* Lines 72-94: the first strategy that answers True ends the call with
\* True; after max_attempts passes without one the call returns False.
SolveLoop(max_attempts, results) ==
    IF \E attempt \in 1..max_attempts, i \in 1..Len(strategies) :
           results[attempt][i] = "true"
      THEN "true" ELSE "false"

CapOutcome(content_ok, detected, res, exc) ==
    [content_ok |-> content_ok, detected |-> detected, res |-> res, exc |-> exc]
NoCapOutcome == CapOutcome(FALSE, FALSE, "none", "none")

\* handle_captcha, lines 48-94.  page.content() (line 59) answers or
\* raises; an attribute the instance lacks raises AttributeError where the
\* list of line 66 is built, outside the try of line 77.
HandleCaptchaOutcomes(content_ok, page_content, max_attempts) ==
    IF ~content_ok
      THEN {CapOutcome(FALSE, FALSE, "raised", "Error")}
    ELSE IF ~detect_captcha(page_content)
      THEN {CapOutcome(TRUE, FALSE, "true", "none")}
    ELSE IF \E i \in 1..Len(strategies) : strategies[i] \notin CaptchaHandlerAttributes
      THEN {CapOutcome(TRUE, TRUE, "raised", "AttributeError")}
    ELSE {CapOutcome(TRUE, TRUE, SolveLoop(max_attempts, results), "none") :
            results \in [1..max_attempts -> [1..Len(strategies) -> StrategyResults]]}

MaxAttemptsArgs == {1, 3}

CapInit ==
    /\ cap_out = NoCapOutcome
    /\ cap_log = <<>>

CapQuiet == CapInit

handle_captcha(page_content, max_attempts) ==
    /\ Len(cap_log) < MaxCaptchaCalls
    /\ \E content_ok \in BOOLEAN :
         \E o \in HandleCaptchaOutcomes(content_ok, page_content, max_attempts) :
           /\ cap_out' = o
           /\ cap_log' = Append(cap_log, [page |-> page_content, res |-> o.res])

CapNext ==
    \E page_content \in PageContents, max_attempts \in MaxAttemptsArgs :
        handle_captcha(page_content, max_attempts) /\ UNCHANGED notCap

TokQuiet ==
    /\ TokInit
    /\ mint_count = NoVal
    /\ \A p \in Procs : avail[p]

Init == TokInit /\ RlInit /\ PxInit /\ ScQuiet /\ CkInit /\ CapInit /\ BrInit /\ BkQuiet /\ QQuiet /\ AtQuiet /\ SsQuiet /\ PwQuiet /\ KyQuiet

InitToken == TokInit /\ RlQuiet /\ PxQuiet /\ ScQuiet /\ CkQuiet /\ CapQuiet /\ BrQuiet /\ BkQuiet /\ QQuiet /\ AtQuiet /\ SsQuiet /\ PwQuiet /\ KyQuiet
SpecToken == InitToken /\ [][TokNext]_vars

InitRate == TokQuiet /\ RlInit /\ PxQuiet /\ ScQuiet /\ CkQuiet /\ CapQuiet /\ BrQuiet /\ BkQuiet /\ QQuiet /\ AtQuiet /\ SsQuiet /\ PwQuiet /\ KyQuiet
SpecRate == InitRate /\ [][RlNext]_vars
SpecRateBlock == InitRate /\ [][RlBlockNext]_vars

InitProxy == TokQuiet /\ RlQuiet /\ PxInit /\ ScQuiet /\ CkQuiet /\ CapQuiet /\ BrQuiet /\ BkQuiet /\ QQuiet /\ AtQuiet /\ SsQuiet /\ PwQuiet /\ KyQuiet
SpecProxy == InitProxy /\ [][PxNext]_vars
SpecHealth == InitProxy /\ [][HcNext]_vars

InitScrape == TokQuiet /\ RlQuiet /\ PxInit /\ ScQuiet /\ CkQuiet /\ CapQuiet /\ BrQuiet /\ BkQuiet /\ QQuiet /\ AtQuiet /\ SsQuiet /\ PwQuiet /\ KyQuiet
SpecScrape == InitScrape /\ [][ScNext]_vars
SpecScrapeShared == InitScrape /\ [][ScSharedNext]_vars
SpecSticky == InitScrape /\ [][ScStickyNext]_vars

InitCookie == TokQuiet /\ RlQuiet /\ PxQuiet /\ ScQuiet /\ CkInit /\ CapQuiet /\ BrQuiet /\ BkQuiet /\ QQuiet /\ AtQuiet /\ SsQuiet /\ PwQuiet /\ KyQuiet
SpecCookie == InitCookie /\ [][CkNext]_vars

InitCaptcha ==
    TokQuiet /\ RlQuiet /\ PxQuiet /\ ScQuiet /\ CkQuiet /\ CapInit /\ BrQuiet /\ BkQuiet /\ QQuiet /\ AtQuiet /\ SsQuiet /\ PwQuiet /\ KyQuiet
SpecCaptcha == InitCaptcha /\ [][CapNext]_vars

InitBrowser ==
    TokQuiet /\ RlQuiet /\ PxQuiet /\ ScQuiet /\ CkQuiet /\ CapQuiet /\ BrInit /\ BkQuiet /\ QQuiet /\ AtQuiet /\ SsQuiet /\ PwQuiet /\ KyQuiet
SpecBrowser == InitBrowser /\ [][BrNext]_vars

InitBackoff ==
    TokQuiet /\ RlQuiet /\ PxQuiet /\ ScQuiet /\ CkQuiet /\ CapQuiet /\ BrQuiet /\ BkQuiet /\ QQuiet /\ AtQuiet /\ SsQuiet /\ PwQuiet /\ KyQuiet
SpecBackoff == InitBackoff /\ [][BkNext]_vars

InitQuota ==
    TokQuiet /\ RlQuiet /\ PxQuiet /\ ScQuiet /\ CkQuiet /\ CapQuiet /\ BrQuiet /\ BkQuiet /\ QInit /\ AtQuiet /\ SsQuiet /\ PwQuiet /\ KyQuiet
SpecQuota == InitQuota /\ [][QNext]_vars

InitAttempt ==
    TokQuiet /\ RlQuiet /\ PxQuiet /\ ScQuiet /\ CkQuiet /\ CapQuiet /\ BrQuiet /\ BkQuiet /\ QQuiet /\ AtQuiet /\ SsQuiet /\ PwQuiet /\ KyQuiet
SpecAttempt == InitAttempt /\ [][AtNext]_vars

InitSession ==
    TokQuiet /\ RlQuiet /\ PxQuiet /\ ScQuiet /\ CkQuiet /\ CapQuiet /\ BrQuiet /\ BkQuiet /\ QQuiet /\ AtQuiet /\ SsInit /\ PwQuiet /\ KyQuiet
SpecSession == InitSession /\ [][SsNext]_vars

InitPlaywright ==
    TokQuiet /\ RlQuiet /\ PxQuiet /\ ScQuiet /\ CkQuiet /\ CapQuiet /\ BrQuiet /\ BkQuiet /\ QQuiet /\ AtQuiet /\ SsQuiet /\ PwInit /\ KyQuiet
SpecPlaywright == InitPlaywright /\ [][PwNext]_vars
SpecCookieRace == InitPlaywright /\ [][SvNext]_vars

InitKeys ==
    TokQuiet /\ RlQuiet /\ PxQuiet /\ ScQuiet /\ CkQuiet /\ CapQuiet /\ BrQuiet /\ BkQuiet /\ QQuiet /\ AtQuiet /\ SsQuiet /\ PwQuiet /\ KyInit
SpecKeys == InitKeys /\ [][KyNext]_vars

\* ------------------------------------------------------------------------
\* Claims about the token manager
\* ------------------------------------------------------------------------

\* The store answered every operation, every manager has its client and the
\* clock has not advanced: no lock can have expired.
HealthyRun == fails = 0 /\ ticks = 0 /\ \A p \in Procs : avail[p]

\* C1: among get_access_token calls that run concurrently while the cached
\* token is expired, exactly one sends the token-endpoint request; no second
\* request is made.
C1_SingleRefreshRequest == HealthyRun => batchPosts <= 1

\* C2: at most one caller is between a successful _acquire_lock and its
\* _release_lock, whatever the refresh duration relative to the 60 s TTL.
C2_OneInCriticalSection ==
    (fails = 0 /\ \A p \in Procs : avail[p])
        => Cardinality({p \in Procs : hist[p].cs}) <= 1

\* C4: a refresh attempted while the mint counter is at or above the daily
\* cap fails with a quota error and makes no token-endpoint request.
C4_QuotaRefusesRefresh ==
    \A p \in Procs :
        hist[p].quotaSeen =>
            /\ pc[p] \notin {"lock", "post", "await_response", "incr", "exec", "finally"}
            /\ out[p].detail = "quota"

\* C8: on every exit from a refresh that acquired the lock, the lock key has
\* been deleted and the manager's lock-held flag is false.
C8_LockReleasedOnExit ==
    \A p \in Procs :
        (pc[p] = "idle" /\ hist[p].tookLock) => (~held[p] /\ ~hist[p].keyLeft)

\* C32: with the store unavailable (no client, or a store call raising)
\* get_access_token does not fail because of the store: no call ends with
\* the store's error, and a call of a manager that has given up the store
\* fails only when the token request itself failed.
C32_StoreOutageDoesNotFail ==
    \A p \in Procs :
        /\ out[p].detail # "store_error"
        /\ (~avail[p] /\ pc[p] = "idle" /\ out[p].res = "http503")
               => out[p].detail \in {"refresh_failed", "unexpected"}

\* C33: redis_available only ever changes from true to false, and a store
\* error clears it: the manager whose store operation raised does not use
\* the store again.
C33_StoreErrorClearsFlag ==
    [][\A p \in Procs :
           /\ avail'[p] => avail[p]
           /\ (fails' = fails + 1 /\ pc'[p] # pc[p]) => ~avail'[p]]_vars

\* ------------------------------------------------------------------------
\* Claims about the rate limiter
\* ------------------------------------------------------------------------

\* History: the calls on k that returned normally within the window
\* [current_time - period, current_time] of line 122.
NormalInWindow(k) == Cardinality(rl_ok1[k]) + Cardinality(rl_ok2[k])

\* C3: with the store working and one call a second from one public
\* identity, at most the class limit of calls return normally within the
\* trailing period, and a call that finds the limit exceeded raises HTTP 429
\* with a retry-after greater than zero.
C3_ThrottledAboveLimit ==
    (rl_avail /\ rl_irr = {}) =>
        /\ NormalInWindow("k1") <= DefaultLimit(rl_class["k1"])
        /\ (rl_out.count # NoVal /\ rl_out.count > rl_out.res.limit) =>
               (rl_out.res.kind = "429" /\ rl_out.res.retry_after > 0)

\* C7: a limit call made without a store client, or whose store operation
\* raised, returns the allow result (remaining equal to the class limit,
\* retry_after 0) and raises nothing.
C7_FailOpen ==
    rl_out.path \in {"no_store", "store_error"} =>
        /\ rl_out.res.kind = "allow"
        /\ rl_out.res.remaining = DefaultLimit(rl_class[rl_out.key])
        /\ rl_out.res.retry_after = 0

\* C7 witness: a call on k1 whose store operation raised has returned.
C7_Witness == rl_out.path = "store_error" /\ rl_out.key = "k1"

\* ------------------------------------------------------------------------
\* Claims about the proxy manager
\* ------------------------------------------------------------------------

\* C5: a proxy is disabled exactly when the failures reported for it since
\* its last reported success have reached 3, and get_proxy never returns a
\* proxy that is disabled.
C5_DisabledAtThreeFailures ==
    /\ \A i \in DOMAIN proxies :
           (~proxies[i].enabled) <=> (px_own[i] >= DisableThreshold)
    /\ px_ret.enabled

\* ------------------------------------------------------------------------
\* Claims about the scraping engine
\* ------------------------------------------------------------------------

\* The call ended with the terminal error: every attempt failed.
AllAttemptsFailed == scrape.pc = "idle" /\ sc_out.kind = "ScraperEngineException"

\* An element as the claim describes it: not visible, or with a bounding box
\* of zero width or zero height.
Concealed(el) == ~el.visible \/ el.box \in {"zero_width", "zero_height"}

\* C6 as stated: when every attempt fails, scrape_page makes exactly
\* max_retries attempts, each pause is strictly longer than the one before,
\* and exactly one terminal ScraperEngineException is raised.
C6_StrictlyIncreasingBackoff ==
    AllAttemptsFailed =>
        /\ sc_hist.attempts = scrape.max_retries
        /\ Len(sc_hist.slept) = scrape.max_retries
        /\ \A i \in 2..Len(sc_hist.slept) : sc_hist.slept[i] > sc_hist.slept[i - 1]
        /\ sc_hist.raised = 1

\* C6 amended: when every attempt fails, scrape_page makes exactly
\* max_retries attempts, the pause after failed attempt k (from 0) lies in
\* the closed interval from 2^k to 2^(k+1) seconds, so that no pause is
\* shorter than the one before, and exactly one terminal
\* ScraperEngineException is raised; none is raised while attempts remain.
C6_BackoffWithinDoublingIntervals ==
    /\ AllAttemptsFailed =>
           /\ sc_hist.attempts = scrape.max_retries
           /\ Len(sc_hist.slept) = scrape.max_retries
           /\ \A i \in 1..Len(sc_hist.slept) :
                  /\ sc_hist.slept[i] >= 2 ^ (i - 1)
                  /\ sc_hist.slept[i] <= 2 ^ i
           /\ \A i \in 2..Len(sc_hist.slept) : sc_hist.slept[i] >= sc_hist.slept[i - 1]
           /\ sc_hist.raised = 1
    /\ scrape.pc = "loop" => sc_hist.raised = 0 /\ sc_hist.attempts = scrape.attempt

\* C6 witness: three attempts failed, the first two pauses were equal, and
\* the terminal error was raised.
C6_Witness ==
    /\ AllAttemptsFailed
    /\ scrape.max_retries = 3
    /\ sc_hist.slept[1] = sc_hist.slept[2]

\* C9 as stated: scrape_page returns no success outcome when the price, the
\* title or the image element is not visible or has a bounding box of zero
\* width or height.
C9_NoConcealedElementReturned ==
    sc_out.kind = "success" =>
        /\ ~Concealed(sc_hist.page.price_el)
        /\ ~Concealed(sc_hist.page.title_el)
        /\ ~Concealed(sc_hist.page.image_el)

\* C9 amended: an attempt whose extraction finds the title or the image
\* element not visible or with a bounding box of zero width or height fails
\* with DataMissingException, and scrape_page returns no success outcome
\* from it.
C9_ConcealedTitleOrImageFails ==
    (/\ sc_hist.page.nav = "ok"
     /\ sc_hist.page.found
     /\ Concealed(sc_hist.page.title_el) \/ Concealed(sc_hist.page.image_el))
        => /\ sc_hist.last_exc = "DataMissingException"
           /\ sc_out.kind # "success"

\* C9 witness: an attempt met a visible title with a bounding box of zero
\* width and failed.
C9_Witness ==
    /\ sc_hist.page.title_el = ZeroWidth
    /\ sc_hist.last_exc = "DataMissingException"
    /\ sc_hist.attempts >= 1

\* ------------------------------------------------------------------------
\* Claims about the cookie stores
\* ------------------------------------------------------------------------

\* C10: a load returns exactly the set last persisted for that target or
\* domain, and nothing for a target or domain for which nothing was
\* persisted; persisting for one leaves what the others load unchanged.
C10_CookieRoundTripIsolated ==
    /\ \A s \in Sites :
           LoadCookies(cookie_files, CookiesPath(s)) =
               (IF ck_saved[s].saved THEN ck_saved[s].cookies ELSE {})
    /\ \A d \in Domains :
           CmLoadCookies(cm_file, d) =
               (IF cm_saved[d].saved THEN cm_saved[d].cookies ELSE {})


\* C11: a mark_success reported for a proxy (by its configured address or by
\* the address get_proxy hands out for it) sets that proxy's failure count to
\* 0 and leaves it enabled, whatever its state before.
C11_SuccessResetsProxy ==
    [][\A proxy_url \in ReportedUrls :
           mark_success(proxy_url) =>
               \A i \in Owners(proxies, PROXY_CREDS, proxy_url) :
                   proxies'[i].failures = 0 /\ proxies'[i].enabled]_vars


\* The record that follows position index in cyclic pool order among the
\* enabled ones (0: none is enabled).
NextEnabledAfter(index) ==
    LET n == Len(proxies)
        on == {i \in 1..n : proxies[i].enabled}
        Distance(i) == ((i - 1) - (index + 1)) % n
    IN  IF on = {} THEN 0
        ELSE CHOOSE i \in on : \A j \in on : Distance(i) <= Distance(j)

\* C12: every get_proxy call returns the next enabled proxy in cyclic pool
\* order after the one the rotation stands at, never a disabled one, and
\* leaves the rotation at the proxy it returned; it returns none exactly
\* when proxying is switched off, the pool is empty or every proxy is
\* disabled.
C12_CyclicRotation ==
    [][get_proxy =>
         IF ~PROXY_ENABLED \/ proxies = <<>> \/ NextEnabledAfter(current_proxy_index) = 0
         THEN px_ret'.idx = 0 /\ px_ret'.url = NoUrl
         ELSE /\ px_ret'.idx = NextEnabledAfter(current_proxy_index)
              /\ proxies[px_ret'.idx].enabled
              /\ px_ret'.url = FormatProxy(proxies[px_ret'.idx].proxy, PROXY_CREDS)
              /\ px_ret'.url # NoUrl
              /\ current_proxy_index' = px_ret'.idx - 1]_vars

\* C12 witness: get_proxy passed over a disabled proxy and returned the
\* enabled one after it.
C12_Witness == px_ret.idx # 0 /\ px_ret.skipped >= 1


\* C13: when limit() is called for an identity that was throttled before
\* (an earlier call found request_count > limit) and that made no call for a
\* full period or longer, the call returns normally: it does not take the
\* branch of line 132, it neither sleeps nor raises, and its result allows
\* the request.
C13_NormalAfterIdlePeriod ==
    [][\A k \in Keys :
          (RlLimit(k, FALSE) /\ k \in rl_thr /\ rl_last[k] = Period) =>
              /\ rl_out'.key = k
              /\ rl_out'.res.kind = "allow"
              /\ rl_out'.path \in {"counted", "no_store", "store_error"}
              /\ rl_out'.path = "counted" => rl_out'.count <= DefaultLimit(rl_class[k])]_vars

\* A throttled identity was idle for a period, the key had not yet expired,
\* and its next call counted itself and the second of its last call.
C13_Witness ==
    /\ rl_out.key \in rl_thr
    /\ rl_gap = Period
    /\ rl_out.path = "counted"
    /\ rl_out.count = 2
    /\ rl_out.res.kind = "allow"


\* C14: the mint counter is reset once per window: the pipeline of lines
\* 101-104 writes the counter and the reset instant only while the stored
\* reset instant is absent or in the past, never again before the instant
\* it stored has passed.
C14_ResetOncePerWindow ==
    [][resets' = resets + 1 => NeedsReset(mint_reset, now)]_vars


\* C15: a token that get_access_token returns from the cache (line 76) was
\* stored with an expiry more than 60 seconds ahead of the moment of the
\* return; a cached token whose stored expiry is within 60 seconds or past
\* is not returned.
C15_CachedTokenReturnedOnlyWhileValid ==
    [][\A p \in Procs :
          (pc[p] = "read_expiry" /\ out'[p].res = "token") =>
              TokenValid(out'[p].token, hist[p].expAtRead, now)]_vars


\* C16: when two calls of get_access_token fail for different causes, one of
\* them a refresh in progress or an exhausted mint quota and the other one
\* of these or a failed refresh, the errors the two callers receive differ
\* in status code or detail.
C16_DistinguishableErrors ==
    \A p, q \in Procs :
        (/\ out[p].res = "http503" /\ out[q].res = "http503"
         /\ out[p].detail \in {"in_progress", "quota"}
         /\ out[q].detail \in {"in_progress", "quota", "refresh_failed"}
         /\ out[p].detail # out[q].detail)
            => SurfacedError(out[p].detail) # SurfacedError(out[q].detail)


\* C17: a handle_captcha call whose page answered page.content() returns
\* True or False and does not raise, also when a challenge was detected.
C17_ReturnsBooleanNeverRaises ==
    cap_out.content_ok => cap_out.res \in {"true", "false"}


\* C18: when an attempt of scrape_page is over (the coroutine is back at
\* the head of the loop or has left scrape_page), whether the attempt
\* returned, timed out, raised or was cancelled, no browser and no context
\* it opened is open; and every context an attempt operates on was opened
\* by that attempt of that coroutine.
C18_AttemptClosesItsBrowser ==
    /\ \A t \in Tasks :
          br_task[t].pc \in {"idle", "loop"} => \A r \in br_open : r.task # t
    /\ \A u \in br_uses :
          u.context = Res("context", u.task, u.attempt)

\* An attempt that raised with its context open is over and a second
\* attempt of the same scrape has returned, while another scrape's attempt
\* timed out, all of them closed.
C18_Witness ==
    \E t, u \in Tasks :
        /\ t # u
        /\ br_task[t].result = "success" /\ br_task[t].attempt = 1
        /\ [res |-> Res("context", t, 0), by |-> "exit"] \in br_closed
        /\ [res |-> Res("context", t, 1), by |-> "close"] \in br_closed
        /\ br_task[u].pc = "loop" /\ br_task[u].attempt = 1
        /\ [res |-> Res("browser", u, 0), by |-> "exit"] \in br_closed
        /\ Cardinality(br_uses) = 3


\* C19: the time a limit call with block = True has spent asleep at line
\* 135, all its sleeps together, does not exceed block_timeout.
C19_BlockedWithinTimeout ==
    rl_sleep # NoSleep => rl_blocked <= BlockTimeout


\* The enabled records of the pool.
EnabledProxies == {i \in DOMAIN proxies : proxies[i].enabled}

\* C20: an attempt of scrape_page that follows a failed attempt of the same
\* call, made while proxies are in use and two or more of them are enabled,
\* runs through a proxy other than the one of the attempt that just failed,
\* whatever the scrapes of other targets did in between.
C20_RetryGetsAnotherProxy ==
    [][(/\ sc_hist'.attempts = sc_hist.attempts + 1
        /\ scrape.attempt >= 1
        /\ PROXY_ENABLED
        /\ Cardinality(EnabledProxies) >= 2)
           => sc_hist'.proxy # sc_hist.proxy]_vars


\* C21: every probe health_check sends goes to a record that is disabled
\* and whose last failure lies the cooldown or longer in the past, and the
\* record whose probe was answered with status 200 is enabled afterwards.
C21_ProbesOnlyCooledDisabled ==
    /\ \A s \in px_sent :
          ~s.enabled /\ s.last_failed # NoVal /\ s.last_failed >= Cooldown
    /\ px_resp.ok => px_resp.enabled_after


\* C21 (amended): health_check sends no probe to a record that is disabled
\* and whose last failure lies less than the cooldown in the past, and the
\* record whose probe was answered with status 200 is enabled afterwards.
C21_NoProbeWhileCooling ==
    /\ \A s \in px_sent :
          ~(~s.enabled /\ s.last_failed # NoVal /\ s.last_failed < Cooldown)
    /\ px_resp.ok => px_resp.enabled_after

\* A disabled record was probed, answered 200 and is enabled again.
C21_Witness ==
    px_resp.ok /\ ~px_resp.enabled_before /\ px_resp.enabled_after


\* C22: the backoff slept after failed attempt number k grows with 2^k and
\* never exceeds the fixed cap, whatever max_retries is.
C22_BackoffExponentialCapped ==
    \A i \in DOMAIN bk_slept :
        /\ bk_slept[i].delay >= Min({2 ^ bk_slept[i].k, BackoffCap})
        /\ bk_slept[i].delay <= BackoffCap


\* C23: when scrape_page has returned a result, the loop has ended with the
\* attempt that succeeded, the cookies of that attempt are in the target's
\* cookie file, mark_success was called with the proxy of that attempt, and
\* the result carries that proxy, a timestamp and the fields extracted from
\* the page of that attempt only.
C23_SuccessOutcome ==
    sc_out.kind = "success" =>
        LET site_url == scrape.site_url
        IN  /\ scrape.pc = "idle"
            /\ sc_hist.attempts = Len(sc_hist.slept) + 1
            /\ sc_hist.raised = 0
            /\ ck_saved[site_url].saved
            /\ SiteCookie(site_url) \in ck_saved[site_url].cookies
            /\ LoadCookies(cookie_files, CookiesPath(site_url)) = ck_saved[site_url].cookies
            /\ sc_hist.reported = [op |-> "mark_success", url |-> sc_hist.proxy]
            /\ sc_out.proxy = sc_hist.proxy
            /\ sc_out.scraped_at = "utcnow"
            /\ sc_out.data = ExtractData(sc_hist.page)
            /\ sc_out.data.kind = "data"

\* C23 witness: the third attempt of a call succeeded through a proxy.
C23_Witness ==
    sc_out.kind = "success" /\ Len(sc_hist.slept) = 2 /\ sc_out.proxy # NoUrl


\* C24: while the store answers and no call is under way, the mint counter
\* equals the number of tokens the endpoint issued since the present mint
\* window was started: no reset has discarded an increment of the window and
\* no refresh has completed without its increment.
C24_CounterCountsRefreshes ==
    (fails = 0 /\ \A p \in Procs : avail[p] /\ pc[p] = "idle")
        => (IF mint_count = NoVal THEN 0 ELSE mint_count) = minted


\* C25: a _release_lock that deletes the lock key deletes a key the
\* releasing caller set itself: it never removes the key another process
\* set and still holds.
C25_ReleaseDeletesOwnKey ==
    [][\A p \in Procs :
          (/\ pc[p] = "finally" /\ pc'[p] = "idle"
           /\ LockPresent /\ lock_until' = NoVal)
              => lock_owner = p]_vars


\* C26: a limit call whose pipeline ran on a key that was present adds one
\* entry to the sorted set of its identity, and the count it compares with
\* the limit is one more than the entries the window held before the call.
C26_EachCallAddsOneEntry ==
    [][\A k \in Keys :
          (/\ rl_n0'[k] = rl_n0[k] + 1
           /\ rl_out'.key = k /\ rl_out'.count # NoVal
           /\ rl_ttl[k] # NoVal /\ rl_ttl[k] > 0)
              => /\ Cardinality(rl_zset'[k]) = Cardinality(rl_zset[k]) + 1
                 /\ rl_out'.count = ZCount(rl_zset[k]) + 1]_vars


\* C27: the usage the limiter counts in its present period never exceeds
\* max_calls, and a caller admitted after it slept until the reset had
\* observed, when it woke, a usage below max_calls.
C27_QuotaNeverExceeded ==
    /\ Usage(q_cfg.redis_available, q_store, q_local, q_now) <= q_cfg.max_calls
    /\ q_hist.admitted.slept => q_hist.admitted.observed < q_cfg.max_calls


\* The order of the steps of an attempt, without and with a CAPTCHA.
PlainOrder ==
    <<"get_proxy", "load_cookies", "goto", "simulate_human", "detect_captcha",
      "extract_data", "save_cookies">>
CaptchaOrder ==
    <<"get_proxy", "load_cookies", "goto", "simulate_human", "detect_captcha",
      "handle_captcha", "reload", "simulate_human", "extract_data", "save_cookies">>

\* The steps of the present attempt up to its report to the proxy manager.
StepsTaken ==
    LET n == Len(at_steps)
        m == IF n > 0 /\ at_steps[n].step \in {"mark_success", "mark_failed"}
             THEN n - 1 ELSE n
    IN  [i \in 1..m |-> at_steps[i].step]

IsPrefix(s, t) == Len(s) <= Len(t) /\ s = SubSeq(t, 1, Len(s))

\* C28: the steps of an attempt follow the order obtain proxy, restore
\* cookies, navigate, simulate, CAPTCHA check (when triggered: solve, reload,
\* simulate again), extract, persist cookies; no extraction follows a
\* navigation that timed out, and no cookies are persisted after an
\* extraction that failed.
C28_StepOrder ==
    /\ IsPrefix(StepsTaken, PlainOrder) \/ IsPrefix(StepsTaken, CaptchaOrder)
    /\ \A i, j \in DOMAIN at_steps :
          (at_steps[i].step = "goto" /\ at_steps[j].step = "extract_data")
              => at_steps[i].outcome = "ok"
    /\ \A i, j \in DOMAIN at_steps :
          (at_steps[i].step = "extract_data" /\ at_steps[j].step = "save_cookies")
              => at_steps[i].outcome = "ok"

\* C28 witness: an attempt met a CAPTCHA, went through solve, reload and the
\* second simulation, extracted, persisted the cookies and returned.
C28_Witness ==
    /\ Len(at_steps) = Len(CaptchaOrder) + 1
    /\ at_steps[Len(at_steps)].step = "mark_success"
    /\ at_run = NoRun


\* C29: the address _get_sticky_proxy hands to a scrape attempt, from
\* get_proxy or from the sticky assignment, belongs to a proxy that is
\* enabled at that moment.
C29_HandedProxyEnabled ==
    sc_hist.handed.url # NoUrl => sc_hist.handed.enabled


\* C30: reporting the address get_proxy returned to mark_failed or
\* mark_success updates the record get_proxy selected (one more failure, or
\* failures reset and enabled) and leaves every other record as it was.
C30_ReportUpdatesSelectedRecord ==
    [][px_ret.idx # 0 =>
           /\ mark_failed(px_ret.url) =>
                  /\ proxies'[px_ret.idx].failures = proxies[px_ret.idx].failures + 1
                  /\ \A i \in DOMAIN proxies \ {px_ret.idx} : proxies'[i] = proxies[i]
           /\ mark_success(px_ret.url) =>
                  /\ proxies'[px_ret.idx].failures = 0
                  /\ proxies'[px_ret.idx].enabled
                  /\ \A i \in DOMAIN proxies \ {px_ret.idx} : proxies'[i] = proxies[i]]_vars


\* ------------------------------------------------------------------------
\* Claims about the session manager
\* ------------------------------------------------------------------------

\* C31: load_session never returns a session whose expiry instant has
\* passed, from the file or from the in-memory cache, and a session it finds
\* expired is left neither in the file nor in the cache.
C31_NoExpiredSessionReturned ==
    /\ ~Expired(ss_ret.returned, ss_ret.at)
    /\ ~ss_ret.expired_left


\* ------------------------------------------------------------------------
\* Claims about PlaywrightScraper and CookieManager
\* ------------------------------------------------------------------------

\* C34: a get_page_content call that failed, followed by close, leaves the
\* stored cookie set of its domain as it was before the call.
C34_FailedFetchSavesNothing ==
    (pw_hist.closed /\ ~pw_hist.ok) =>
        StoredEntry(pw_file, pw_hist.domain) = pw_hist.before

\* C35: once the concurrent save_cookies calls have completed, the file
\* holds for every domain the cookies of the last call completed for it.
C35_ConcurrentSavesKeepBoth ==
    (\A t \in Savers : pw_save[t].pc = "idle") =>
        \A d \in Domains :
            pw_done[d].saved => StoredEntry(pw_file, d) = Entry(pw_done[d].cookies)


\* ------------------------------------------------------------------------
\* Claims about the keys of the rate limiter
\* ------------------------------------------------------------------------

\* C36: the remaining count limit() returns to an identity on a resource
\* reflects the calls of that identity on that resource only: calls of
\* another identity, or on another resource, do not change it.
C36_IdentitiesIsolated ==
    ky_last.key # NoText =>
        ky_last.remaining =
            DefaultLimit("public") - ky_own[<<ky_last.key_prefix, ky_last.client_id>>]


\* C37: of two get_proxy calls that follow one another while two or more
\* proxies are enabled, the second returns a proxy and not the one the
\* first returned: the rotation index is advanced and read in one step.
C37_ConcurrentCallsDistinct ==
    [][(get_proxy /\ px_ret.idx # 0 /\ Cardinality(EnabledProxies) >= 2) =>
           /\ px_ret'.idx # 0
           /\ px_ret'.idx # px_ret.idx
           /\ px_ret'.url # px_ret.url]_vars

\* C37 witness: two calls returned the two proxies of a pool, the second
\* one last.
C37_Witness ==
    /\ Len(proxies) = 2
    /\ \A i \in DOMAIN proxies :
           proxies[i].enabled /\ proxies[i].last_used /\ proxies[i].failures = 0
    /\ px_ret.idx = 2
    /\ current_proxy_index = 1


\* C38: a health_check call made less than the interval after the last
\* check that ran sends no probe and changes no record, and probes are in
\* flight only within an interval of the check that sent them, so a second
\* call made meanwhile starts no second round.
C38_GatedCheckDoesNothing ==
    [][/\ (health_check /\ Gated(last_health_check)) =>
              UNCHANGED <<proxies, px_pending, px_sent, last_health_check, px_own>>
       /\ (px_pending' # {}) => Gated(last_health_check')]_vars

\* C38 witness: health_check was called while the probes of the previous
\* call were in flight, and returned at the interval test.
C38_Witness == px_resp.gated /\ px_pending # {}


\* C39: get_proxy changes no field of any proxy record (records change only
\* in mark_success and mark_failed), and no step adds or removes a record:
\* the pool holds the same addresses, in the same number, in every state.
C39_OnlyReportsChangeRecords ==
    [][/\ get_proxy => proxies' = proxies
       /\ Len(proxies') = Len(proxies)
       /\ \A i \in DOMAIN proxies : proxies'[i].proxy = proxies[i].proxy]_vars

====
